---- MODULE Spec2Model ----
(***************************************************************************)
(* Knowledge ingestion and retrieval engine of chatter                     *)
(* (src/src/core/retrieval.ts): VectorStore.build(), cleanupStaleChunks(), *)
(* VectorStore.query(), chunk(), sha256() and loadKnowledge(); the server  *)
(* (src/src/server.ts), its chat routes and their middleware (API keys,    *)
(* sessions, referrer check, rate limiter) and the guards on model output  *)
(* (src/src/core/llm.ts).                                                  *)
(*                                                                         *)
(* Strings.  A JavaScript string is represented by its run-length          *)
(* encoding: a sequence of runs <<c, n>> (character c repeated n >= 1      *)
(* times) in which neighbouring runs carry different characters.  The      *)
(* encoding is a bijection, so equality of encodings is equality of        *)
(* strings; the operators below compute the JavaScript string operations   *)
(* (length, concatenation, replace, split, trim) on that encoding.  It     *)
(* lets a 900-character line, and so the real chunk size and batch sizes   *)
(* of the source, be handled without enumerating 900 cells.                *)
(***************************************************************************)
EXTENDS Integers, Sequences, FiniteSets, TLC

----------------------------------------------------------------------------
(* Strings *)

EmptyStr == << >>

\* c repeated n times
Rep(c, n) == IF n = 0 THEN << >> ELSE << <<c, n>> >>

\* s + t
Cat(s, t) ==
  IF s = << >> THEN t
  ELSE IF t = << >> THEN s
  ELSE IF s[Len(s)][1] = t[1][1]
       THEN SubSeq(s, 1, Len(s) - 1)
              \o << <<t[1][1], s[Len(s)][2] + t[1][2]>> >>
              \o Tail(t)
       ELSE s \o t

\* the string spelled by a sequence of one-character strings
RECURSIVE Lit(_)
Lit(cs) == IF cs = << >> THEN << >> ELSE Cat(Rep(Head(cs), 1), Lit(Tail(cs)))

\* s.length
RECURSIVE StrLen(_)
StrLen(s) == IF s = << >> THEN 0 ELSE s[1][2] + StrLen(Tail(s))

\* s.replace(/c/g, ""), by halves (the recursion is then only log-deep)
RECURSIVE RemoveChar(_, _)
RemoveChar(s, c) ==
  IF Len(s) = 0 THEN << >>
  ELSE IF Len(s) = 1 THEN (IF s[1][1] = c THEN << >> ELSE s)
  ELSE LET h == Len(s) \div 2
       IN  Cat(RemoveChar(SubSeq(s, 1, h), c), RemoveChar(SubSeq(s, h + 1, Len(s)), c))

\* n copies of the empty string, as a sequence of strings
EmptyLines(n) == [i \in 1..n |-> << >>]

\* the pieces of s + t from the pieces of s and of t: the last piece of s and
\* the first piece of t are one piece
JoinPieces(ps, qs) ==
  SubSeq(ps, 1, Len(ps) - 1) \o << Cat(ps[Len(ps)], qs[1]) >> \o Tail(qs)

\* s.split(c): the pieces of s between the occurrences of c, by halves.  A
\* run of n separators ends a piece, holds n-1 empty pieces and starts one.
RECURSIVE Split(_, _)
Split(s, c) ==
  IF Len(s) = 0 THEN << << >> >>
  ELSE IF Len(s) = 1
       THEN (IF s[1][1] = c THEN EmptyLines(s[1][2] + 1) ELSE << s >>)
       ELSE LET h == Len(s) \div 2
            IN  JoinPieces(Split(SubSeq(s, 1, h), c), Split(SubSeq(s, h + 1, Len(s)), c))

\* the characters String.prototype.trim() removes (those the model's texts use)
WhiteSpace == {" ", "\t", "\n", "\r", "\f"}

RECURSIVE TrimStart(_)
TrimStart(s) ==
  IF s = << >> THEN << >>
  ELSE IF s[1][1] \in WhiteSpace THEN TrimStart(Tail(s)) ELSE s

RECURSIVE TrimEnd(_)
TrimEnd(s) ==
  IF s = << >> THEN << >>
  ELSE IF s[Len(s)][1] \in WhiteSpace THEN TrimEnd(SubSeq(s, 1, Len(s) - 1)) ELSE s

\* s.trim()
Trim(s) == TrimEnd(TrimStart(s))

NL == Rep("\n", 1)

----------------------------------------------------------------------------
(* chunk(), sha256() *)

\* the default of chunk's max parameter
DefaultMax == 900

\* ChunkStep cutting the line that overflows: its first run goes into the
\* chunk being flushed, the rest starts the next buffer
ChunkStep_Split(st, line, max) ==
  IF StrLen(Cat(Cat(st.buf, NL), line)) > max /\ line # << >>
  THEN [buf |-> Tail(line),
        out |-> Append(st.out, Trim(Cat(Cat(st.buf, NL), SubSeq(line, 1, 1))))]
  ELSE [buf |-> Cat(Cat(st.buf, NL), line), out |-> st.out]

\* ChunkStep that never flushes the buffer
ChunkStep_NoFlush(st, line, max) ==
  [buf |-> Cat(Cat(st.buf, NL), line), out |-> st.out]

\* ChunkStep that starts the next buffer empty: the line that overflows is lost
ChunkStep_DropsLine(st, line, max) ==
  IF StrLen(Cat(Cat(st.buf, NL), line)) > max
  THEN [buf |-> EmptyStr, out |-> Append(st.out, Trim(st.buf))]
  ELSE [buf |-> Cat(Cat(st.buf, NL), line), out |-> st.out]

\* one turn of chunk()'s loop over the lines: st is [buf, out]
ChunkStep(st, line, max) ==
  IF StrLen(Cat(Cat(st.buf, NL), line)) > max
  THEN [buf |-> line, out |-> Append(st.out, Trim(st.buf))]
  ELSE [buf |-> Cat(Cat(st.buf, NL), line), out |-> st.out]

\* the turns for lines[i..j] in order, starting from st.  The range is split
\* in halves and the first half is computed (the test on done.out) before the
\* second starts from its result, so the evaluation is log-deep in j - i.
RECURSIVE ChunkLoop(_, _, _, _, _)
ChunkLoop(lines, i, j, st, max) ==
  IF i > j THEN st
  ELSE IF i = j THEN ChunkStep(st, lines[i], max)
  ELSE LET h    == (i + j) \div 2
           done == ChunkLoop(lines, i, h, st, max)
       IN  IF Len(done.out) >= 0 THEN ChunkLoop(lines, h + 1, j, done, max) ELSE done

chunk(text, max) ==
  LET lines == Split(RemoveChar(text, "\r"), "\n")
      st    == ChunkLoop(lines, 1, Len(lines), [buf |-> EmptyStr, out |-> << >>], max)
  IN  IF Trim(st.buf) # EmptyStr THEN Append(st.out, Trim(st.buf)) ELSE st.out

\* SHA-256 rendered as hex.  The digest is taken as injective on its input:
\* it is represented by its preimage, tagged so that an id is not a string.
sha256(input) == << "sha256", input >>

----------------------------------------------------------------------------
(* The corpus on disk and loadKnowledge() *)

EMB_MODEL == "text-embedding-3-large"

BASE    == Lit(<< "b", "a", "s", "e" >>)
PUBLIC  == Lit(<< "p", "u", "b", "l", "i", "c" >>)
PRIVATE == Lit(<< "p", "r", "i", "v", "a", "t", "e" >>)

\* the buckets in the order loadKnowledge visits them
Buckets == << BASE, PUBLIC, PRIVATE >>

\* the knowledge directory the store was constructed with
KnowledgeDir == Lit(<< "k" >>)

SLASH == Rep("/", 1)
BAR   == Rep("|", 1)
MdExt == Lit(<< ".", "m", "d" >>)

\* path.join(a, b)
join(a, b) == Cat(Cat(a, SLASH), b)

\* s.endsWith(t): t's runs lie at the end of s, the first of them possibly
\* inside a longer run of s
EndsWith(s, t) ==
  \/ t = << >>
  \/ /\ Len(s) >= Len(t)
     /\ LET off == Len(s) - Len(t)
        IN  /\ s[off + 1][1] = t[1][1]
            /\ s[off + 1][2] >= t[1][2]
            /\ \A k \in 2..Len(t) : s[off + k] = t[k]

\* number of lines of the long document: one more than a batch of BATCH ids
BigLines == 97

\* line i of the long document: 500 characters, different for each i
BigLine(i) == Cat(Rep("a", i), Rep("b", 500 - i))

\* the long document: BigLines lines, no two of which fit one chunk of 900
DocBig ==
  [k \in 1..(3 * BigLines - 1) |->
     IF k % 3 = 1 THEN << "a", (k + 2) \div 3 >>
     ELSE IF k % 3 = 2 THEN << "b", 500 - ((k + 1) \div 3) >>
     ELSE << "\n", 1 >>]

DocHours  == Lit(<< "o", "p", "e", "n", " ", "9", "-", "5" >>)
DocSecret == Lit(<< "k", "e", "y", " ", "4", "2" >>)
\* two chunks: a line of 600 "a" and a line of 600 "b"
DocTwo    == Cat(Cat(Rep("a", 600), NL), Rep("b", 600))
\* DocTwo with its second line edited
DocTwoEd  == Cat(Cat(Rep("a", 600), NL), Rep("c", 600))

\* the files the environment writes and removes, in directory order, each
\* with the texts it may hold
Files ==
  << [bucket |-> BASE,    name |-> Lit(<< "a", ".", "m", "d" >>),
      texts  |-> {DocTwo, DocTwoEd}],
     [bucket |-> PUBLIC,  name |-> Lit(<< "b", ".", "m", "d" >>),
      texts  |-> {DocHours, DocBig}],
     [bucket |-> PRIVATE, name |-> Lit(<< "c", ".", "m", "d" >>),
      texts  |-> {DocSecret}] >>

\* what the file system holds where a file does not exist: no string (a run of
\* length 0 is not part of any encoding)
NoFile == << << "absent", 0 >> >>

\* walk(dir) for the directory of bucket b: the paths of the .md files in it
walk(fsys, b) ==
  LET here == SelectSeq([i \in 1..Len(Files) |-> i],
                        LAMBDA i : /\ Files[i].bucket = b
                                   /\ fsys[i] # NoFile
                                   /\ EndsWith(Files[i].name, MdExt))
  IN  [n \in 1..Len(here) |->
         [file |-> here[n], path |-> join(join(KnowledgeDir, b), Files[here[n]].name)]]

\* { id: f, text: readFileSync(f, "utf8"), source: f, bucket }
LoadedDoc(f, text, bucket) == [id |-> f, text |-> text, source |-> f, bucket |-> bucket]

\* the documents of one bucket
BucketDocs(fsys, b) ==
  LET fl == walk(fsys, b)
  IN  [n \in 1..Len(fl) |-> LoadedDoc(fl[n].path, fsys[fl[n].file], b)]

\* loadKnowledge that stops at the first bucket without documents
loadKnowledge_StopsAtMissing(fsys) ==
  IF BucketDocs(fsys, Buckets[1]) = << >> THEN << >>
  ELSE IF BucketDocs(fsys, Buckets[2]) = << >> THEN BucketDocs(fsys, Buckets[1])
  ELSE BucketDocs(fsys, Buckets[1]) \o BucketDocs(fsys, Buckets[2]) \o BucketDocs(fsys, Buckets[3])

loadKnowledge(fsys) ==
  BucketDocs(fsys, Buckets[1]) \o BucketDocs(fsys, Buckets[2]) \o BucketDocs(fsys, Buckets[3])

----------------------------------------------------------------------------
(* build(): the rows of the scan *)

\* ChunkId with the whole document hashed into the id of each of its chunks
ChunkId_WholeDoc(d, part) ==
  sha256(Cat(Cat(Cat(Cat(Cat(Cat(d.bucket, BAR), d.source), BAR), d.text), BAR), part))

\* the id of chunk `part` of document d
ChunkId(d, part) == sha256(Cat(Cat(Cat(Cat(d.bucket, BAR), d.source), BAR), part))

\* the rows of one document
DocRows(d) ==
  LET parts == chunk(d.text, DefaultMax)
  IN  [n \in 1..Len(parts) |->
         [id |-> ChunkId(d, parts[n]), bucket |-> d.bucket, source |-> d.source,
          text |-> parts[n]]]

RECURSIVE RowsOf(_)
RowsOf(docs) == IF docs = << >> THEN << >> ELSE DocRows(Head(docs)) \o RowsOf(Tail(docs))

\* rows, as build() has it after its loop over the documents
ScanRows(fsys) == RowsOf(loadKnowledge(fsys))

\* rows.map((r) => r.id)
IdsOf(rs) == [n \in 1..Len(rs) |-> rs[n].id]

Range(seq) == {seq[n] : n \in 1..Len(seq)}

----------------------------------------------------------------------------
(* The store, the embedding provider and the pure parts of build()/query() *)

\* rows per statement in cleanupStaleChunks (BATCH_SIZE) and in the diff loop
BATCH_SIZE == 500
\* texts per embedding call
BATCH == 96

Min(a, b) == IF a < b THEN a ELSE b

\* seq.slice(i, i + n)
Slice(seq, i, n) == SubSeq(seq, i + 1, Min(i + n, Len(seq)))

\* the ids of the rows of relation chunks
TableIds(table) == {table[n].id : n \in 1..Len(table)}

\* relation embeddings with no row.  The relation is a function from the ids
\* it holds (its primary key) to the rest of the row.
NoEmbeddings == [id \in {} |-> [model |-> EMB_MODEL, embedding |-> << >>]]

\* the embedding provider: one vector per text, the same text giving the same
\* vector (two small positive integer coordinates, derived from the text)
Embedding(text) == << 1 + (StrLen(text) % 3), 1 + (Len(text) % 3) >>

\* JSON.stringify of a vector and JSON.parse of the stored text
JSONstringify(v) == << "json", v >>
JSONparse(j) == j[2]

\* StaleIds finding nothing stale
StaleIds_Never(table, currentIds) == << >>

\* SELECT id FROM chunks, then dbIds.filter((id) => !currentIdSet.has(id))
StaleIds(table, currentIds) ==
  LET currentIdSet == Range(currentIds)
  IN  SelectSeq(IdsOf(table), LAMBDA id : id \notin currentIdSet)

\* DELETE FROM chunks WHERE id IN (batch)
DeleteChunks(table, batch) ==
  LET gone == Range(batch)
  IN  SelectSeq(table, LAMBDA r : r.id \notin gone)

\* the rows of rs whose id occurs neither in the table nor earlier in rs: what
\* INSERT ... ON CONFLICT(id) DO NOTHING adds, row by row
NewRows(table, rs) ==
  LET held  == TableIds(table)
      first == {n \in 1..Len(rs) :
                  /\ rs[n].id \notin held
                  /\ \A m \in 1..(n - 1) : rs[m].id # rs[n].id}
  IN  SelectSeq([n \in 1..Len(rs) |-> [n |-> n, row |-> rs[n]]],
                LAMBDA e : e.n \in first)

\* the upsert transaction, committed
Upsert(table, rs) ==
  LET add == NewRows(table, rs)
  IN  table \o [n \in 1..Len(add) |-> add[n].row]

\* db.transaction("write") on a relation: what is committed and the
\* transaction's own view of the relation
TxBegin(table) == [committed |-> table, work |-> table]

\* tx.commit(): the transaction's view becomes the relation
TxCommit(tx) == tx.work

\* TxRollback that keeps what the transaction wrote
TxRollback_Keeps(tx) == tx.work

\* tx.rollback(): the relation is what was committed
TxRollback(tx) == tx.committed

\* the statements at which a transaction of len statements is made to fail:
\* 0 is db.transaction() itself, len + 1 is the commit
FailPoints(len) == {0, 1, len \div 2 + 1, len, len + 1} \cap 0..(len + 1)

\* the embedding rows new without those of the ids lost
Without(new, lost) == [id \in DOMAIN new \ lost |-> new[id]]

\* MissingOf without EXCEPT SELECT id FROM embeddings
MissingOf_NoExcept(table, embs, batch) ==
  LET held == TableIds(table)
  IN  {id \in Range(batch) : id \in held}

\* SELECT id FROM chunks WHERE id IN (batch) EXCEPT SELECT id FROM embeddings:
\* a set of ids
MissingOf(table, embs, batch) ==
  LET held == TableIds(table)
  IN  {id \in Range(batch) : id \in held /\ id \notin DOMAIN embs}

\* the rows of a result set of ids, in the order of their first occurrence in
\* the batch
InOrder(ids, batch) ==
  LET firsts == SelectSeq([n \in 1..Len(batch) |-> n],
                          LAMBDA n : /\ batch[n] \in ids
                                     /\ \A m \in 1..(n - 1) : batch[m] # batch[n])
  IN  [n \in 1..Len(firsts) |->
         batch[firsts[n]]]

\* new Map(rows.map((r) => [r.id, r.text])).get(id) || "": the text of the
\* last row with that id
TextById(rs, id) ==
  LET at == {n \in 1..Len(rs) : rs[n].id = id}
  IN  IF at = {} THEN EmptyStr
      ELSE rs[CHOOSE n \in at : \A m \in at : m <= n].text

\* BatchIds with a slice one too long
BatchIds_Wide(miss, i) == Slice(miss, i, BATCH + 1)

\* missing.slice(i, i + BATCH)
BatchIds(miss, i) == Slice(miss, i, BATCH)

\* EmbeddingRows without the row of the last vector
EmbeddingRows_DropsLast(batchIds, data) ==
  [id \in {batchIds[idx] : idx \in 1..(Len(data) - 1)} |->
     [model     |-> EMB_MODEL,
      embedding |-> JSONstringify(
                      data[CHOOSE idx \in 1..Len(data) :
                             /\ batchIds[idx] = id
                             /\ \A m \in 1..(idx - 1) : batchIds[m] # id])]]

\* the rows one embedding transaction inserts: data[idx] under batchIds[idx]
\* (of two vectors under one id the first is inserted, the second refused)
EmbeddingRows(batchIds, data) ==
  [id \in {batchIds[idx] : idx \in 1..Len(data)} |->
     [model     |-> EMB_MODEL,
      embedding |-> JSONstringify(
                      data[CHOOSE idx \in 1..Len(data) :
                             /\ batchIds[idx] = id
                             /\ \A m \in 1..(idx - 1) : batchIds[m] # id])]]

\* InsertEmbeddings whose rows are lost
InsertEmbeddings_Lost(embs, new) == embs

\* INSERT INTO embeddings, statement by statement: a row whose id the table
\* already holds is refused by the primary key
InsertEmbeddings(embs, new) ==
  [id \in DOMAIN embs \cup DOMAIN new |-> IF id \in DOMAIN embs THEN embs[id] ELSE new[id]]

\* Candidates with a chunk row for every chunk of the allowed buckets, the
\* embedding of a chunk that has none being a vector of ones
Candidates_NoJoin(table, embs, allowed) ==
  LET buckets == Range(allowed)
      hit     == SelectSeq(table, LAMBDA c : c.bucket \in buckets)
  IN  [n \in 1..Len(hit) |->
         [id |-> hit[n].id, text |-> hit[n].text,
          embedding |-> IF hit[n].id \in DOMAIN embs THEN embs[hit[n].id].embedding
                        ELSE JSONstringify(<< 1, 1 >>)]]

\* Candidates without WHERE c.bucket IN (allowed)
Candidates_NoFilter(table, embs, allowed) ==
  LET hit == SelectSeq(table, LAMBDA c : c.id \in DOMAIN embs)
  IN  [n \in 1..Len(hit) |->
         [id |-> hit[n].id, text |-> hit[n].text, embedding |-> embs[hit[n].id].embedding]]

\* SELECT c.id, c.text, e.embedding FROM chunks c JOIN embeddings e ON
\* e.id = c.id WHERE c.bucket IN (allowed): the rows in table order
Candidates(table, embs, allowed) ==
  LET buckets == Range(allowed)
      hit     == SelectSeq(table, LAMBDA c : c.bucket \in buckets /\ c.id \in DOMAIN embs)
  IN  [n \in 1..Len(hit) |->
         [id |-> hit[n].id, text |-> hit[n].text, embedding |-> embs[hit[n].id].embedding]]

Dot(a, b) == a[1] * b[1] + a[2] * b[2]

\* cosine(q, u) > cosine(q, v), for vectors of positive coordinates: the
\* scores are dot / (|q| |u|) with dot > 0, compared by their squares
CosineGreater(q, u, v) == Dot(q, u) * Dot(q, u) * Dot(v, v) > Dot(q, v) * Dot(q, v) * Dot(u, u)

RECURSIVE Concat(_, _)
Concat(parts, n) == IF n = 0 THEN << >> ELSE Concat(parts, n - 1) \o parts[n]

\* SortByScore that leaves the rows as they were selected
SortByScore_Unsorted(q, cand) == cand

\* scored.sort((a, b) => b.s - a.s): by falling score, rows of equal score in
\* their order before the sort.  The rows are grouped by the number of
\* vectors present that score higher than theirs, and the groups are put
\* one after the other.
SortByScore(q, cand) ==
  LET vecs    == {JSONparse(cand[n].embedding) : n \in 1..Len(cand)}
      rank    == [v \in vecs |-> Cardinality({w \in vecs : CosineGreater(q, w, v)})]
      group   == [r \in 1..Cardinality(vecs) |->
                    SelectSeq(cand, LAMBDA c : rank[JSONparse(c.embedding)] = r - 1)]
  IN  Concat(group, Cardinality(vecs))

\* the rows query(q, k, allowed) ranks first, once its two calls have succeeded
QueryRows(table, embs, q, k, allowed) ==
  Slice(SortByScore(Embedding(q), Candidates(table, embs, allowed)), 0, k)

\* what query(q, k, allowed) returns: scored.slice(0, k).map((r) => r.text)
query(table, embs, q, k, allowed) ==
  LET top == QueryRows(table, embs, q, k, allowed)
  IN  [n \in 1..Len(top) |-> top[n].text]

----------------------------------------------------------------------------
(* State *)

VARIABLES
  fs,          \* the corpus: fs[n] is the text of Files[n], or NoFile
  chunks,      \* relation chunks, in rowid order
  embeddings,  \* relation embeddings, a function from id to [model, embedding]
  pc,          \* where build() stands; "idle": no build is running
  rows,        \* build's rows
  staleIds,    \* cleanupStaleChunks' staleIds
  missing,     \* build's missing
  i,           \* the index of the loop build is in
  emb,         \* the provider's answer to the batch being persisted
  outcome,     \* how the last build ended: "none", "ok", "failed"
  failedAt,    \* the step at which it failed
  calls,       \* history: the embedding calls of this build, [ids, failed]
  nmiss,       \* history: missing.length when this build's diff loop ended
  scanFs,      \* history: the corpus as the last scan read it
  start,       \* history: both relations when this build started
  prev,        \* history: outcome, failedAt, scanFs and calls of the build before
  nbuilds,     \* builds started
  nedits,      \* changes made to the corpus
  result,      \* the last query and what it returned
  fault,       \* history: the operation of this build that was made to fail
  srv,         \* createServer(): its stage, the features enabled, the routes mounted
  idcase,      \* two (bucket, source, text) and the ids derived for them
  chunkcase,   \* a text and a max, and the chunks chunk() makes of them
  llmcase,     \* what the model produced, and what the client was sent
  conf,        \* the configuration createServer() was given, and process.env
  sessions,    \* core/session.ts sessions: key -> [requests, maxRequests, expiresAt]
  buckets,     \* createRateLimiter's buckets: key -> [count, windowStart]
  now,         \* Date.now(), in milliseconds
  req,         \* the request being served, the middleware it stands at, its status
  created,     \* history: created[k] is the session of key k as createSession made it
  granted,     \* history: the calls of validateSession that returned true, [key, at]
  passed       \* history: the calls of allow() that returned true, [key, at]

store    == << chunks, embeddings >>
locals   == << rows, staleIds, missing, i, emb >>
ended    == << outcome, failedAt >>
history  == << calls, nmiss, scanFs, start, prev >>
counters == << nbuilds, nedits >>
cases    == << idcase, chunkcase, llmcase >>
web      == << conf, sessions, buckets, now, req, created, granted, passed >>

vars == << fs, store, pc, locals, ended, history, counters, result, fault, srv, cases, web >>

MaxBuilds == 2
MaxEdits  == 1

NoResult == [called |-> FALSE]
NoCase   == [stage |-> "none"]
NoFault  == [kind |-> "none"]
NoServer == [stage |-> "none", features |-> {}, routes |-> {}]

\* undefined, and a Map without entries
None     == "undefined"
EmptyMap == [k \in {} |-> None]

NoConf    == [config |-> None, env |-> None]
NoRequest == [stage |-> "none", n |-> 0]

\* no server configured, no request made
WebOff ==
  /\ conf = NoConf
  /\ sessions = EmptyMap
  /\ buckets = EmptyMap
  /\ now = 0
  /\ req = NoRequest
  /\ created = << >>
  /\ granted = << >>
  /\ passed = << >>

\* the texts and the values of k and allowed a query is made with
QueryInputs == {Lit(<< "h", "o", "u", "r", "s" >>), Rep("a", 2)}
Ks          == {0, 1, 2}
AllowedSets == {<< BASE, PUBLIC >>, << BASE, PRIVATE >>}

\* the corpora: every file holds one of its texts or does not exist
Corpora ==
  {f \in [1..Len(Files) -> UNION {Files[n].texts : n \in 1..Len(Files)} \cup {NoFile}] :
     \A n \in 1..Len(Files) : f[n] \in Files[n].texts \cup {NoFile}}

\* a new store and no build yet
InitStore ==
  /\ chunks = << >>
  /\ embeddings = NoEmbeddings
  /\ pc = "idle"
  /\ rows = << >>
  /\ staleIds = << >>
  /\ missing = << >>
  /\ i = 0
  /\ emb = << >>
  /\ outcome = "none"
  /\ failedAt = "none"
  /\ calls = << >>
  /\ nmiss = 0
  /\ scanFs = [n \in 1..Len(Files) |-> NoFile]
  /\ start = [chunks |-> << >>, embeddings |-> NoEmbeddings]
  /\ prev = [outcome |-> "none", failedAt |-> "none",
             scanFs |-> [n \in 1..Len(Files) |-> NoFile], calls |-> << >>]
  /\ nbuilds = 0
  /\ nedits = 0
  /\ result = NoResult
  /\ fault = NoFault

\* the corpus holds every file, with any of its texts
Init ==
  /\ fs \in {f \in Corpora : \A n \in 1..Len(Files) : f[n] # NoFile}
  /\ InitStore
  /\ srv = NoServer
  /\ idcase = NoCase
  /\ chunkcase = NoCase
  /\ llmcase = NoCase
  /\ WebOff

----------------------------------------------------------------------------
(* The environment: documents are written and removed.  loadKnowledge reads
   the whole corpus synchronously, so a scan sees one corpus; a change made
   while build() runs is seen by the next build like one made after it, and
   the changes are placed between the builds. *)

WriteFile(n, text) ==
  /\ pc = "idle"
  /\ nedits < MaxEdits
  /\ fs[n] # text
  /\ fs' = [fs EXCEPT ![n] = text]
  /\ nedits' = nedits + 1
  /\ result' = NoResult
  /\ UNCHANGED << store, pc, locals, ended, history, nbuilds, fault, srv, cases, web >>

RemoveFile(n) ==
  /\ pc = "idle"
  /\ nedits < MaxEdits
  /\ fs[n] # NoFile
  /\ fs' = [fs EXCEPT ![n] = NoFile]
  /\ nedits' = nedits + 1
  /\ result' = NoResult
  /\ UNCHANGED << store, pc, locals, ended, history, nbuilds, fault, srv, cases, web >>

----------------------------------------------------------------------------
(* build() *)

\* build() is called; the three CREATE ... IF NOT EXISTS statements succeed
BuildCall ==
  /\ pc = "idle"
  /\ nbuilds < MaxBuilds
  /\ pc' = "scan"
  /\ nbuilds' = nbuilds + 1
  /\ calls' = << >>
  /\ nmiss' = 0
  /\ start' = [chunks |-> chunks, embeddings |-> embeddings]
  /\ prev' = [outcome |-> outcome, failedAt |-> failedAt, scanFs |-> scanFs, calls |-> calls]
  /\ result' = NoResult
  /\ fault' = NoFault
  /\ UNCHANGED << fs, store, locals, ended, scanFs, nedits, cases, web >>

\* build() is called on a store of its own, outside createServer()
BuildStart ==
  /\ BuildCall
  /\ UNCHANGED srv

\* loadKnowledge, chunk and sha256: rows
Scan ==
  /\ pc = "scan"
  /\ rows' = ScanRows(fs)
  /\ scanFs' = fs
  /\ pc' = "cleanup"
  /\ UNCHANGED << fs, store, staleIds, missing, i, emb, ended, calls, nmiss, start, prev,
                  counters, result, fault, srv, cases, web >>

\* cleanupStaleChunks up to its loop
CleanupSelect ==
  /\ pc = "cleanup"
  /\ staleIds' = StaleIds(chunks, IdsOf(rows))
  /\ i' = 0
  /\ pc' = IF staleIds' = << >> THEN "upsert" ELSE "delete"
  /\ UNCHANGED << fs, store, rows, missing, emb, ended, history, counters, result, fault, srv, cases, web >>

\* one DELETE of cleanupStaleChunks' loop
CleanupDelete ==
  /\ pc = "delete"
  /\ chunks' = DeleteChunks(chunks, Slice(staleIds, i, BATCH_SIZE))
  /\ i' = i + BATCH_SIZE
  /\ pc' = IF i' < Len(staleIds) THEN "delete" ELSE "upsert"
  /\ UNCHANGED << fs, embeddings, rows, staleIds, missing, emb, ended, history, counters,
                  result, fault, srv, cases, web >>

\* the upsert transaction commits
UpsertChunks ==
  /\ pc = "upsert"
  /\ chunks' = Upsert(chunks, rows)
  /\ i' = 0
  /\ missing' = << >>
  /\ pc' = "diff"
  /\ UNCHANGED << fs, embeddings, rows, staleIds, emb, ended, history, counters, result,
                  fault, srv, cases, web >>

\* one SELECT of the diff loop
DiffBatch ==
  /\ pc = "diff"
  /\ i < Len(rows)
  /\ LET batch == Slice(IdsOf(rows), i, BATCH_SIZE)
     IN  missing' = missing \o InOrder(MissingOf(chunks, embeddings, batch), batch)
  /\ i' = i + BATCH_SIZE
  /\ UNCHANGED << fs, store, pc, rows, staleIds, emb, ended, history, counters, result,
                  fault, srv, cases, web >>

\* build()'s locals are gone when it returns or throws
Return ==
  /\ pc' = "idle"
  /\ rows' = << >>
  /\ staleIds' = << >>
  /\ missing' = << >>
  /\ i' = 0
  /\ emb' = << >>

\* build() returns
Finish ==
  /\ Return
  /\ outcome' = "ok"
  /\ failedAt' = "none"

\* Fail with the error swallowed: the loop goes on with an empty answer
Fail_Swallowed ==
  /\ pc' = "persist"
  /\ emb' = << >>
  /\ UNCHANGED << rows, staleIds, missing, i, ended >>

\* build() throws at step pc
Fail ==
  /\ Return
  /\ outcome' = "failed"
  /\ failedAt' = pc

\* after the diff loop: nothing to embed, build() returns
DiffDoneEmpty ==
  /\ pc = "diff"
  /\ i >= Len(rows)
  /\ missing = << >>
  /\ nmiss' = 0
  /\ Finish
  /\ UNCHANGED << fs, store, calls, scanFs, start, prev, counters, result, fault, srv, cases, web >>

\* after the diff loop: the embedding loop starts
DiffDoneMissing ==
  /\ pc = "diff"
  /\ i >= Len(rows)
  /\ missing # << >>
  /\ nmiss' = Len(missing)
  /\ i' = 0
  /\ pc' = "embed"
  /\ UNCHANGED << fs, store, rows, staleIds, missing, emb, ended, calls, scanFs, start,
                  prev, counters, result, fault, srv, cases, web >>

\* client.embeddings.create for the batch at i answers, one vector per input
EmbedCall ==
  /\ pc = "embed"
  /\ LET batchIds == BatchIds(missing, i)
         inputs   == [n \in 1..Len(batchIds) |-> TextById(rows, batchIds[n])]
     IN  /\ calls' = Append(calls, [ids |-> batchIds, failed |-> FALSE])
         /\ emb' = [n \in 1..Len(inputs) |-> Embedding(inputs[n])]
  /\ pc' = "persist"
  /\ UNCHANGED << fs, store, rows, staleIds, missing, i, ended, nmiss, scanFs, start, prev,
                  counters, result, fault, srv, cases, web >>

\* client.embeddings.create for the batch at i throws: build() throws
EmbedCallFails ==
  /\ pc = "embed"
  /\ calls' = Append(calls, [ids |-> BatchIds(missing, i), failed |-> TRUE])
  /\ Fail
  /\ UNCHANGED << fs, store, nmiss, scanFs, start, prev, counters, result, fault, srv, cases, web >>

\* the batch's transaction commits; the loop goes on or build() returns
EmbedPersist ==
  /\ pc = "persist"
  /\ embeddings' = InsertEmbeddings(embeddings, EmbeddingRows(BatchIds(missing, i), emb))
  /\ IF i + BATCH < Len(missing)
     THEN /\ pc' = "embed"
          /\ i' = i + BATCH
          /\ UNCHANGED << rows, staleIds, missing, emb, ended >>
     ELSE Finish
  /\ UNCHANGED << fs, chunks, history, counters, result, fault, srv, cases, web >>

----------------------------------------------------------------------------
(* build() over a store whose statements may fail *)

\* the upsert transaction fails at statement n (0: db.transaction("write"),
\* Len(rows) + 1: tx.commit()), the statements before it having succeeded.
\* From statement 1 on the catch block rolls back and rethrows.
UpsertFails(n) ==
  /\ pc = "upsert"
  /\ LET tx   == TxBegin(chunks)
         done == [tx EXCEPT !.work = Upsert(tx.work, SubSeq(rows, 1, Min(n - 1, Len(rows))))]
     IN  /\ chunks' = IF n = 0 THEN chunks ELSE TxRollback(done)
         /\ fault' = [kind |-> "upsert", at |-> n, before |-> chunks,
                    pending |-> Len(done.work) - Len(chunks)]
  /\ Fail
  /\ UNCHANGED << fs, embeddings, history, counters, result, srv, cases, web >>

\* the rest of one turn of the embedding loop: the next turn, or build()
\* returns
EmbedLoopNext ==
  IF i + BATCH < Len(missing)
  THEN /\ pc' = "embed"
       /\ i' = i + BATCH
       /\ UNCHANGED << rows, staleIds, missing, emb, ended >>
  ELSE Finish

\* the INSERT for batchIds[n] fails.  tx2.execute() is not awaited, so the
\* rejection is not thrown inside the try block: the other inserts are made,
\* tx2.commit() commits them and the loop goes on.
EmbedInsertFails(n) ==
  /\ pc = "persist"
  /\ LET batchIds == BatchIds(missing, i)
         lost     == {batchIds[n]}
         tx       == TxBegin(embeddings)
         done     == [tx EXCEPT !.work =
                        InsertEmbeddings(tx.work, Without(EmbeddingRows(batchIds, emb), lost))]
     IN  /\ embeddings' = TxCommit(done)
         /\ fault' = [kind |-> "insert", batch |-> batchIds, lost |-> lost,
                    before |-> DOMAIN embeddings]
  /\ EmbedLoopNext
  /\ UNCHANGED << fs, chunks, history, counters, result, srv, cases, web >>

\* tx2.commit() fails: the catch block rolls the batch back and rethrows
EmbedCommitFails ==
  /\ pc = "persist"
  /\ LET batchIds == BatchIds(missing, i)
         tx       == TxBegin(embeddings)
         done     == [tx EXCEPT !.work = InsertEmbeddings(tx.work, EmbeddingRows(batchIds, emb))]
     IN  /\ embeddings' = TxRollback(done)
         /\ fault' = [kind |-> "commit", batch |-> batchIds, lost |-> {},
                    before |-> DOMAIN embeddings]
  /\ Fail
  /\ UNCHANGED << fs, chunks, history, counters, result, srv, cases, web >>

----------------------------------------------------------------------------
(* build() over a file system whose operations may fail *)

\* the I/O errors of one scan: readdirSync of the directory of bucket
\* Buckets[at], statSync of the entry of Files[at], readFileSync of Files[at]
IOFaults ==
  {[kind |-> "readdir", at |-> b] : b \in 1..Len(Buckets)}
    \cup {[kind |-> op, at |-> n] : op \in {"stat", "read"}, n \in 1..Len(Files)}

\* the directory or file the operation is made on exists
OnExisting(fsys, f) ==
  IF f.kind = "readdir"
  THEN \E n \in 1..Len(Files) : Files[n].bucket = Buckets[f.at] /\ fsys[n] # NoFile
  ELSE fsys[f.at] # NoFile

\* the corpus as walk() collects it when readdirSync or statSync throws: the
\* catch block of walk ends the loop over the directory and walk returns the
\* items pushed before the error
Collected(fsys, f) ==
  [n \in 1..Len(Files) |->
     IF f.kind = "readdir" /\ Files[n].bucket = Buckets[f.at] THEN NoFile
     ELSE IF f.kind = "stat" /\ Files[n].bucket = Files[f.at].bucket /\ n >= f.at THEN NoFile
     ELSE fsys[n]]

\* the scan with I/O error f: readFileSync throws out of loadKnowledge and
\* build(); an error of readdirSync or statSync is caught in walk and the
\* scan goes on with the items collected
ScanIOError(f) ==
  /\ pc = "scan"
  /\ OnExisting(fs, f)
  /\ fault' = f
  /\ IF f.kind = "read"
     THEN /\ Fail
          /\ UNCHANGED scanFs
     ELSE /\ rows' = ScanRows(Collected(fs, f))
          /\ scanFs' = Collected(fs, f)
          /\ pc' = "cleanup"
          /\ UNCHANGED << staleIds, missing, i, emb, ended >>
  /\ UNCHANGED << fs, store, calls, nmiss, start, prev, counters, result, srv, cases, web >>

----------------------------------------------------------------------------
(* query(): both of its calls succeed.  It is called between builds, once
   the tables exist.  A query changes nothing in the store, so the response
   is kept until the next operation and one query per state of the store
   shows every response. *)

Query(q, k, allowed) ==
  /\ pc = "idle"
  /\ outcome # "none"
  /\ result = NoResult
  /\ result' = [called |-> TRUE, q |-> q, k |-> k, allowed |-> allowed,
                rows  |-> QueryRows(chunks, embeddings, q, k, allowed),
                texts |-> query(chunks, embeddings, q, k, allowed),
                returned |-> TRUE, error |-> "none"]
  /\ UNCHANGED << fs, store, pc, locals, ended, history, counters, fault, srv, cases, web >>

\* QueryFails with the error caught and an empty list returned
QueryFails_EmptyList(q, k, allowed, at) ==
  /\ pc = "idle"
  /\ outcome # "none"
  /\ result = NoResult
  /\ result' = [called |-> TRUE, q |-> q, k |-> k, allowed |-> allowed,
                rows |-> << >>, texts |-> << >>, returned |-> TRUE, error |-> at]
  /\ UNCHANGED << fs, store, pc, locals, ended, history, counters, fault, srv, cases, web >>

\* query(q, k, allowed) whose embedding call (at = "embed") or SELECT
\* (at = "read") throws: neither is caught, query() rejects
QueryFails(q, k, allowed, at) ==
  /\ pc = "idle"
  /\ outcome # "none"
  /\ result = NoResult
  /\ result' = [called |-> TRUE, q |-> q, k |-> k, allowed |-> allowed,
                returned |-> FALSE, error |-> at]
  /\ UNCHANGED << fs, store, pc, locals, ended, history, counters, fault, srv, cases, web >>

----------------------------------------------------------------------------
(* createServer() (src/src/server.ts) and the chat routes *)

\* ChatRoutes whose private handler also passes the public bucket
ChatRoutes_PrivateSeesAll ==
  [public  |-> [path |-> "/api/public/chat",  k |-> 6, allowed |-> << BASE, PUBLIC >>],
   private |-> [path |-> "/api/private/chat", k |-> 8,
                allowed |-> << BASE, PUBLIC, PRIVATE >>],
   demo    |-> [path |-> "/api/demo/chat",    k |-> 6, allowed |-> << BASE, PUBLIC >>]]

\* the chat routes a configuration may enable, each with the k and the
\* buckets its handler passes to store.query()
ChatRoutes ==
  [public  |-> [path |-> "/api/public/chat",  k |-> 6, allowed |-> << BASE, PUBLIC >>],
   private |-> [path |-> "/api/private/chat", k |-> 8, allowed |-> << BASE, PRIVATE >>],
   demo    |-> [path |-> "/api/demo/chat",    k |-> 6, allowed |-> << BASE, PUBLIC >>]]

\* config.features: the default (public and private chat), demo routes
\* enabled as well, public chat disabled
FeatureSets == {{"public", "private"}, {"public", "private", "demo"}, {"private"}}

\* createServer(config) is called: it constructs the store and calls build()
CreateServer ==
  /\ srv.stage = "none"
  /\ srv.features # {}
  /\ BuildCall
  /\ srv' = [srv EXCEPT !.stage = "build"]

\* MountRoutes that does not wait for build() to return
MountRoutes_NoAwait ==
  /\ srv.stage = "build"
  /\ srv' = [srv EXCEPT !.stage = "mounted", !.routes = srv.features]
  /\ UNCHANGED << fs, store, pc, locals, ended, history, counters, result, fault, cases, web >>

\* await store.build() has returned: the routes of the enabled features are
\* mounted
MountRoutes ==
  /\ srv.stage = "build"
  /\ pc = "idle"
  /\ outcome = "ok"
  /\ srv' = [srv EXCEPT !.stage = "mounted", !.routes = srv.features]
  /\ UNCHANGED << fs, store, pc, locals, ended, history, counters, result, fault, cases, web >>

\* return app: the host serves it from now on
ReturnApp ==
  /\ srv.stage = "mounted"
  /\ srv' = [srv EXCEPT !.stage = "ready"]
  /\ UNCHANGED << fs, store, pc, locals, ended, history, counters, result, fault, cases, web >>

\* await store.build() has thrown: createServer() rejects
Reject ==
  /\ srv.stage = "build"
  /\ pc = "idle"
  /\ outcome = "failed"
  /\ srv' = [srv EXCEPT !.stage = "rejected"]
  /\ UNCHANGED << fs, store, pc, locals, ended, history, counters, result, fault, cases, web >>

\* the process ends; the store it built stays on disk for the next one
ProcessExit ==
  /\ srv.stage \in {"ready", "rejected"}
  /\ nbuilds < MaxBuilds
  /\ srv' = [srv EXCEPT !.stage = "none", !.routes = {}]
  /\ result' = NoResult
  /\ UNCHANGED << fs, store, pc, locals, ended, history, counters, fault, cases, web >>

\* a chat request with a user message q reaches the handler of a mounted
\* route, which calls store.query(q, k, allowed)
ChatRequest(route, q) ==
  /\ srv.stage = "ready"
  /\ route \in srv.routes
  /\ result = NoResult
  /\ LET k       == ChatRoutes[route].k
         allowed == ChatRoutes[route].allowed
     IN  result' = [called |-> TRUE, q |-> q, k |-> k, allowed |-> allowed,
                    rows  |-> QueryRows(chunks, embeddings, q, k, allowed),
                    texts |-> query(chunks, embeddings, q, k, allowed),
                    returned |-> TRUE, error |-> "none",
                    route |-> route, pc |-> pc, outcome |-> outcome]
  /\ UNCHANGED << fs, store, pc, locals, ended, history, counters, fault, srv, cases, web >>

----------------------------------------------------------------------------
(* Specifications *)

\* the corpus changes and the store is built
Next ==
  \/ \E n \in 1..Len(Files) : \E text \in Files[n].texts : WriteFile(n, text)
  \/ \E n \in 1..Len(Files) : RemoveFile(n)
  \/ BuildStart
  \/ Scan
  \/ CleanupSelect
  \/ CleanupDelete
  \/ UpsertChunks
  \/ DiffBatch
  \/ DiffDoneEmpty
  \/ DiffDoneMissing
  \/ EmbedCall
  \/ EmbedCallFails
  \/ EmbedPersist

Spec == Init /\ [][Next]_vars

\* the builds, and the queries made between them
NextQuery ==
  \/ Next
  \/ \E q \in QueryInputs : \E k \in Ks : \E allowed \in AllowedSets : Query(q, k, allowed)

SpecQuery == Init /\ [][NextQuery]_vars

\* the builds over a store whose transactions may fail
NextFaults ==
  \/ Next
  \/ \E n \in FailPoints(Len(rows)) : UpsertFails(n)
  \/ \E n \in {1, Len(BatchIds(missing, i))} : EmbedInsertFails(n)
  \/ EmbedCommitFails

SpecFaults == Init /\ [][NextFaults]_vars

\* createServer() over any corpus, then the chat requests; documents are
\* removed and the server is started again over the store it left
InitServer ==
  /\ fs \in Corpora
  /\ InitStore
  /\ srv \in {[stage |-> "none", features |-> f, routes |-> {}] : f \in FeatureSets}
  /\ idcase = NoCase
  /\ chunkcase = NoCase
  /\ llmcase = NoCase
  /\ WebOff

NextServer ==
  \/ CreateServer
  \/ Scan
  \/ CleanupSelect
  \/ CleanupDelete
  \/ UpsertChunks
  \/ DiffBatch
  \/ DiffDoneEmpty
  \/ DiffDoneMissing
  \/ EmbedCall
  \/ EmbedCallFails
  \/ EmbedPersist
  \/ MountRoutes
  \/ ReturnApp
  \/ Reject
  \/ \E route \in DOMAIN ChatRoutes : \E q \in QueryInputs : ChatRequest(route, q)
  \/ ProcessExit
  \/ \E n \in 1..Len(Files) : RemoveFile(n)

SpecServer == InitServer /\ [][NextServer]_vars

\* the builds over a file system whose operations may fail
NextIO ==
  \/ Next
  \/ \E f \in IOFaults : ScanIOError(f)

SpecIO == Init /\ [][NextIO]_vars

\* the builds, and the queries made between them, which may fail
NextQueryFaults ==
  \/ NextQuery
  \/ \E q \in QueryInputs : \E k \in Ks : \E allowed \in AllowedSets :
        \E at \in {"embed", "read"} : QueryFails(q, k, allowed, at)

SpecQueryFaults == Init /\ [][NextQueryFaults]_vars

----------------------------------------------------------------------------
(* The id derivation alone: ids of two chunks *)

\* file names and chunk texts the two chunks are drawn from
IdNames == {Lit(<< "a", ".", "m", "d" >>), Lit(<< "a", ".", "m", "d", "|", "x", ".", "m", "d" >>)}
IdParts == {Lit(<< "t" >>), Lit(<< "x", ".", "m", "d", "|", "t" >>)}

\* the documents: a file of one of the names, in one of the buckets, whose
\* text is one chunk
IdDocs ==
  {LoadedDoc(join(join(KnowledgeDir, Buckets[b]), name), part, Buckets[b]) :
     b \in 1..Len(Buckets), name \in IdNames, part \in IdParts}

InitId ==
  /\ fs = [n \in 1..Len(Files) |-> NoFile]
  /\ InitStore
  /\ srv = NoServer
  /\ idcase \in {[stage |-> "docs", a |-> da, b |-> db] : da \in IdDocs, db \in IdDocs}
  /\ chunkcase = NoCase
  /\ llmcase = NoCase
  /\ WebOff

\* the ids build() derives for the chunks of the two documents
DeriveIds ==
  /\ idcase.stage = "docs"
  /\ idcase' = [stage |-> "ids", a |-> idcase.a, b |-> idcase.b,
                ida |-> DocRows(idcase.a)[1].id, idb |-> DocRows(idcase.b)[1].id]
  /\ UNCHANGED << fs, store, pc, locals, ended, history, counters, result, fault, srv, chunkcase, llmcase, web >>

NextId == DeriveIds

SpecId == InitId /\ [][NextId]_vars

----------------------------------------------------------------------------
(* chunk() alone: the chunks of one text *)

\* the most lines a text is made of
MaxLines == 3

\* the lines the texts are made of: an empty line, a line ending in a
\* carriage return, lines of which two fit one chunk of 900 and lines of
\* which two do not, one of them starting with a blank, a line of exactly
\* 900 characters and one longer than that
ChunkLines ==
  { EmptyStr,
    Cat(Rep("a", 2), Rep("\r", 1)),
    Rep("a", 400),
    Cat(Rep(" ", 1), Rep("b", 450)),
    Cat(Rep("c", 200), Rep("f", 300)),
    Rep("e", 900),
    Rep("d", 950) }

\* ls.join("\n")
RECURSIVE JoinLines(_)
JoinLines(ls) ==
  IF Len(ls) = 0 THEN EmptyStr
  ELSE IF Len(ls) = 1 THEN ls[1]
  ELSE Cat(Cat(JoinLines(SubSeq(ls, 1, Len(ls) - 1)), NL), ls[Len(ls)])

\* the texts: one to MaxLines lines
ChunkTexts ==
  UNION {{JoinLines(ls) : ls \in [1..n -> ChunkLines]} : n \in 1..MaxLines}

\* the values of max: the default, which build() uses, and a smaller one
ChunkMaxes == {DefaultMax, 500}

InitChunk ==
  /\ fs = [n \in 1..Len(Files) |-> NoFile]
  /\ InitStore
  /\ srv = NoServer
  /\ idcase = NoCase
  /\ chunkcase \in {[stage |-> "text", text |-> t, max |-> m] : t \in ChunkTexts, m \in ChunkMaxes}
  /\ llmcase = NoCase
  /\ WebOff

\* chunk(text, max) is called and returns
Chunk ==
  /\ chunkcase.stage = "text"
  /\ chunkcase' = [stage |-> "chunks", text |-> chunkcase.text, max |-> chunkcase.max,
                   out |-> chunk(chunkcase.text, chunkcase.max)]
  /\ UNCHANGED << fs, store, pc, locals, ended, history, counters, result, fault, srv, idcase, llmcase, web >>

NextChunk == Chunk

SpecChunk == InitChunk /\ [][NextChunk]_vars

----------------------------------------------------------------------------
(* The chat routes in front of their handlers: the middleware stacks of
   routes/public.ts and routes/private.ts, createAuthMiddleware
   (middleware/auth.ts), ApiKeyManager (auth/apikeys.ts), createRateLimiter,
   validateSessionKey, the session store (core/session.ts) and
   requireReferrer.  An absent string (undefined) is represented by the empty
   string: the source tests these strings with || and &&, which treat the
   two alike.  An absent number is represented by 0 for the same reason. *)

\* s.startsWith(t): t's runs lie at the start of s, the last of them possibly
\* inside a longer run of s
StartsWith(s, t) ==
  \/ t = << >>
  \/ /\ Len(s) >= Len(t)
     /\ \A k \in 1..(Len(t) - 1) : s[k] = t[k]
     /\ s[Len(t)][1] = t[Len(t)][1]
     /\ s[Len(t)][2] >= t[Len(t)][2]

\* s.includes(c) for a one-character string c
IncludesChar(s, c) == \E n \in 1..Len(s) : s[n][1] = c

\* a || b on strings
OrElse(a, b) == IF a # EmptyStr THEN a ELSE b

\* the key/value pairs of a Map, with one entry set or deleted
MapSet(m, k, v)  == [x \in DOMAIN m \cup {k} |-> IF x = k THEN v ELSE m[x]]
MapDelete(m, k)  == [x \in DOMAIN m \ {k} |-> m[x]]

\* the secrets and the static key of the deployments
Secret1   == Lit(<< "s", "1" >>)
Secret2   == Lit(<< "s", "2" >>)
StaticKey == Lit(<< "p", "k", "1" >>)
DEMO_KEYS == {Lit(<< "f", "y", "n", "e", "w", "o", "r", "k", "s", ".", "k", "e", "y", ".", "h", "e", "r", "e" >>)}

\* config.bot.publicUrl, and the origins requireReferrer is given
PublicUrl      == Lit(<< "h", "t", "t", "p", "s", ":", "/", "/", "b", ".", "i", "o" >>)
AllowedOrigins == << PublicUrl, Lit(<< "h", "t", "t", "p", ":", "/", "/", "l", "o", "c", "a", "l", "h", "o", "s", "t", ":", "8", "1", "8", "1" >>),
                    Lit(<< "h", "t", "t", "p", ":", "/", "/", "1", "2", "7", ".", "0", ".", "0", ".", "1", ":", "8", "1", "8", "1" >>) >>

\* the pages requests come from, as their origin and referer headers say:
\* none, a page of the bot, a page of another site whose name starts with the
\* bot's, a page of another site
OtherOrigin == Lit(<< "h", "t", "t", "p", "s", ":", "/", "/", "x", ".", "i", "o" >>)
Pages ==
  {[origin |-> EmptyStr, referer |-> EmptyStr],
   [origin |-> PublicUrl, referer |-> Cat(PublicUrl, Lit(<< "/", "c", "h", "a", "t" >>))],
   [origin |-> EmptyStr,
    referer |-> Cat(PublicUrl, Lit(<< ".", "e", "v", "i", "l", ".", "i", "o", "/" >>))],
   [origin |-> OtherOrigin, referer |-> Cat(OtherOrigin, SLASH)]}
OwnPage == [origin |-> PublicUrl, referer |-> Cat(PublicUrl, Lit(<< "/", "c", "h", "a", "t" >>))]

\* the origin (scheme, host and port) of the page at url
OriginOf(url) ==
  LET parts == Split(url, "/")
  IN  IF Len(parts) >= 3 THEN Cat(Cat(parts[1], Rep("/", 2)), parts[3]) ELSE EmptyStr

\* the x-api-key header: absent, `session_${uuid}` for the k-th uuid drawn, a
\* signed JWT (represented by the secret it was signed with and its payload),
\* or any other string
NoHeader      == [kind |-> "none"]
SessionKey(k) == [kind |-> "session", k |-> k]
TextKey(s)    == [kind |-> "text", text |-> s]

\* ApiKeyManager(secret).create({expiresIn}) called at time at: the exp claim
\* of a JWT is in seconds, and so is expiresIn here
ApiKeyManager_create(secret, at, expiresIn) ==
  [kind |-> "jwt", secret |-> secret, type |-> "api_key", exp |-> (at \div 1000) + expiresIn]

\* parseExpiration("365d"), the default lifetime of a key, in seconds
DefaultExpiration == 365 * 24 * 60 * 60

\* jose's jwtVerify(hdr, secretBytes) at time at resolves (to the payload)
jwtVerify(hdr, secret, at) ==
  /\ hdr.kind = "jwt"
  /\ hdr.secret = secret
  /\ (at \div 1000) < hdr.exp

\* hdr.startsWith("session_"), hdr.includes("."), hdr === key
IsSessionKey(hdr) == hdr.kind = "session"
IncludesDot(hdr)  == hdr.kind = "jwt" \/ (hdr.kind = "text" /\ IncludesChar(hdr.text, "."))
IsText(hdr, key)  == hdr.kind = "text" /\ hdr.text = key
IsDemoKey(hdr)    == hdr.kind = "text" /\ hdr.text \in DEMO_KEYS

\* the configurations: the documented one (auth.secret), one with a static
\* public key, and the environments: none of the variables, each of them
AuthConfigs == {[secret |-> Secret1, publicApiKey |-> EmptyStr],
                [secret |-> EmptyStr, publicApiKey |-> StaticKey]}
Envs        == {[CHATBOT_SECRET |-> EmptyStr, CHATBOT_API_KEY |-> EmptyStr],
                [CHATBOT_SECRET |-> Secret1, CHATBOT_API_KEY |-> EmptyStr],
                [CHATBOT_SECRET |-> EmptyStr, CHATBOT_API_KEY |-> StaticKey]}
RateLimits  == {[public |-> 2, private |-> 1]}
Confs ==
  {[config |-> [bot |-> [publicUrl |-> PublicUrl], auth |-> a, rateLimit |-> r], env |-> e] :
     a \in AuthConfigs, e \in Envs, r \in RateLimits}

\* createServer's deps (server.ts): the configuration is one of its fields
Deps(c) ==
  [client |-> "client", store |-> "store", config |-> c.config, prompts |-> "prompts",
   apiKeyManager |-> OrElse(c.env.CHATBOT_SECRET, c.config.auth.secret)]

\* config.auth?.publicApiKey of whatever object is passed as config
PublicApiKeyOf(config) ==
  IF "auth" \in DOMAIN config THEN config.auth.publicApiKey ELSE EmptyStr

\* createAuthMiddleware(config): the two constants its closure holds
createAuthMiddleware(config) ==
  [chatbotSecret |-> PublicApiKeyOf(config), chatbotApiKey |-> PublicApiKeyOf(config)]

\* the middleware publicRoutes(deps) creates: it passes deps
requirePublicKey(c) == createAuthMiddleware(Deps(c))

\* requirePublicKey's decision: next() is called
Authorized(c, hdr, at) ==
  LET mw     == requirePublicKey(c)
      secret == OrElse(c.env.CHATBOT_SECRET, mw.chatbotSecret)
      apiKey == OrElse(c.env.CHATBOT_API_KEY, mw.chatbotApiKey)
  IN  \/ IsSessionKey(hdr)
      \/ secret # EmptyStr /\ hdr.kind # "none" /\ IncludesDot(hdr)
           /\ jwtVerify(hdr, secret, at) /\ hdr.type = "api_key"
      \/ apiKey # EmptyStr /\ IsText(hdr, apiKey)

\* requireReferrer's isAllowed
IsAllowed(allowedOrigins, referer, origin) ==
  \E n \in 1..Len(allowedOrigins) :
     \/ referer # EmptyStr /\ StartsWith(referer, allowedOrigins[n])
     \/ origin # EmptyStr /\ origin = allowedOrigins[n]

\* the rate limiter
WINDOW_MS           == 60000
DefaultPublicLimit  == 60
DefaultPrivateLimit == 120

publicLimit(c)  == IF c.config.rateLimit.public # 0 THEN c.config.rateLimit.public
                   ELSE DefaultPublicLimit
privateLimit(c) == IF c.config.rateLimit.private # 0 THEN c.config.rateLimit.private
                   ELSE DefaultPrivateLimit

\* allow() that opens a new window at every call
allow_NoWindow(bs, key, limit, at) ==
  [ok |-> TRUE, buckets |-> MapSet(bs, key, [count |-> 1, windowStart |-> at])]

\* allow(key, limit) at time at: whether the request passes, and the buckets
allow(bs, key, limit, at) ==
  LET b0 == IF key \in DOMAIN bs THEN bs[key] ELSE [count |-> 0, windowStart |-> at]
      b1 == IF at - b0.windowStart >= WINDOW_MS THEN [count |-> 0, windowStart |-> at] ELSE b0
      b2 == [b1 EXCEPT !.count = @ + 1]
  IN  [ok |-> b2.count <= limit, buckets |-> MapSet(bs, key, b2)]

\* getKeyFromIP: the first x-forwarded-for entry; the header may be absent
UnknownIp == Lit(<< "u", "n", "k", "n", "o", "w", "n", "-", "i", "p" >>)
getKeyFromIP(xff) == IF xff # EmptyStr THEN Trim(Split(xff, ",")[1]) ELSE UnknownIp

\* Math.floor(publicLimit / 10) for a demo key
LimitOf(c, hdr) == IF IsDemoKey(hdr) THEN publicLimit(c) \div 10 ELSE publicLimit(c)

\* the session store

\* validateSession that does not look at the quota
validateSession_NoQuota(ss, key, at) ==
  IF key \notin DOMAIN ss THEN [ok |-> FALSE, sessions |-> ss]
  ELSE IF at > ss[key].expiresAt THEN [ok |-> FALSE, sessions |-> MapDelete(ss, key)]
  ELSE [ok |-> TRUE, sessions |-> [ss EXCEPT ![key].requests = @ + 1]]

\* validateSession(key) at time at: what it returns, and the sessions
validateSession(ss, key, at) ==
  IF key \notin DOMAIN ss THEN [ok |-> FALSE, sessions |-> ss]
  ELSE IF at > ss[key].expiresAt THEN [ok |-> FALSE, sessions |-> MapDelete(ss, key)]
  ELSE IF ss[key].requests >= ss[key].maxRequests THEN [ok |-> FALSE, sessions |-> ss]
  ELSE [ok |-> TRUE, sessions |-> [ss EXCEPT ![key].requests = @ + 1]]

\* createSession({maxRequests, ttl}) at time at, ttl in seconds
NewSession(maxRequests, ttl, at) ==
  [created |-> at, requests |-> 0, maxRequests |-> maxRequests, expiresAt |-> at + ttl * 1000]

\* bounds: requests served, sessions created, the clock's step and its end
MaxRequests == 4
MaxProbes   == 2
MaxSessions == 1
TickMs      == 30000
MaxTicks    == 2

\* the quotas and lifetimes sessions are created with
SessionQuotas == {1, 2}
SessionTtls   == {30}

\* the headers requests carry: none, a session key (of a session, of none), keys of
\* ApiKeyManager under the configured secret (one for a year, one for a
\* tick) and under another secret, the static key, a demo key
ApiKeys ==
  {NoHeader, TextKey(StaticKey)}
    \cup {SessionKey(k) : k \in 1..(MaxSessions + 1)}
    \cup {ApiKeyManager_create(Secret1, 0, DefaultExpiration),
          ApiKeyManager_create(Secret1, 0, TickMs \div 1000),
          ApiKeyManager_create(Secret2, 0, DefaultExpiration)}
    \cup {TextKey(d) : d \in DEMO_KEYS}
Forwarded == {EmptyStr, Lit(<< "1", ".", "2", ".", "3", ".", "4", ",", " ", "5", ".", "6", ".", "7", ".", "8" >>)}

\* the authorization headers of /api/private/*: whether requirePrivateJWT's
\* verify() resolves, and the subject of the payload
Bearers == {[kind |-> "bearer", verified |-> v, sub |-> "u1"] : v \in BOOLEAN}

\* the middleware stack of each route, in the order of its app.use calls
Stack ==
  [public  |-> << "validateSessionKey", "requirePublicKey", "requireReferrer", "limitPublic",
                  "handler" >>,
   private |-> << "requirePrivateJWT", "limitPrivate", "handler" >>]

\* the request has run middleware req.stage, which called next()
CallNext(r) ==
  LET stack == Stack[r.route]
      n     == CHOOSE j \in 1..Len(stack) : stack[j] = r.stage
  IN  [r EXCEPT !.stage = stack[n + 1], !.trace = Append(@, r.stage)]

\* the request has run middleware req.stage, which answered it with status:
\* what is left of the request is the answer and the middleware that gave it
Respond(r, status) == [stage |-> "done", n |-> r.n, status |-> status, by |-> r.stage]

Idle == req.stage \in {"none", "done"}

\* a request arrives
Request(route, hdr, xff, page) ==
  /\ Idle
  /\ req.n < MaxRequests
  /\ req' = [stage |-> Stack[route][1], n |-> req.n + 1, route |-> route, hdr |-> hdr,
             xff |-> xff, origin |-> page.origin, referer |-> page.referer, at |-> now,
             valid |-> FALSE, status |-> 0, trace |-> << >>]
  /\ UNCHANGED << fs, store, pc, locals, ended, history, counters, result, fault, srv, cases,
                  conf, sessions, buckets, now, created, granted, passed >>

\* validateSessionKey()
ValidateSessionKey ==
  /\ req.stage = "validateSessionKey"
  /\ IF IsSessionKey(req.hdr)
     THEN LET v == validateSession(sessions, req.hdr.k, now)
          IN  /\ sessions' = v.sessions
              /\ granted' = IF v.ok THEN Append(granted, [key |-> req.hdr.k, at |-> now])
                            ELSE granted
              /\ req' = IF v.ok THEN CallNext([req EXCEPT !.valid = TRUE])
                        ELSE Respond(req, 401)
     ELSE /\ req' = CallNext(req)
          /\ UNCHANGED << sessions, granted >>
  /\ UNCHANGED << fs, store, pc, locals, ended, history, counters, result, fault, srv, cases,
                  conf, buckets, now, created, passed >>

\* requirePublicKey
RequirePublicKey ==
  /\ req.stage = "requirePublicKey"
  /\ req' = IF Authorized(conf, req.hdr, now) THEN CallNext(req) ELSE Respond(req, 401)
  /\ UNCHANGED << fs, store, pc, locals, ended, history, counters, result, fault, srv, cases,
                  conf, sessions, buckets, now, created, granted, passed >>

\* requireReferrer([config.bot.publicUrl, ...])
RequireReferrer ==
  /\ req.stage = "requireReferrer"
  /\ req' = IF (IsDemoKey(req.hdr) \/ IsSessionKey(req.hdr))
               /\ ~IsAllowed(<< conf.config.bot.publicUrl >> \o Tail(AllowedOrigins),
                             req.referer, req.origin)
            THEN Respond(req, 403)
            ELSE CallNext(req)
  /\ UNCHANGED << fs, store, pc, locals, ended, history, counters, result, fault, srv, cases,
                  conf, sessions, buckets, now, created, granted, passed >>

\* the limiter is asked about key
Limit(key, limit) ==
  LET a == allow(buckets, key, limit, now)
  IN  /\ buckets' = a.buckets
      /\ passed' = IF a.ok THEN Append(passed, [key |-> key, limit |-> limit, at |-> now])
                   ELSE passed
      /\ req' = IF a.ok THEN CallNext(req) ELSE Respond(req, 429)

\* limitPublic()
LimitPublic ==
  /\ req.stage = "limitPublic"
  /\ Limit(<< "pub", getKeyFromIP(req.xff) >>, LimitOf(conf, req.hdr))
  /\ UNCHANGED << fs, store, pc, locals, ended, history, counters, result, fault, srv, cases,
                  conf, sessions, now, created, granted >>

\* requirePrivateJWT
RequirePrivateJWT ==
  /\ req.stage = "requirePrivateJWT"
  /\ req' = IF req.hdr.kind = "bearer" /\ req.hdr.verified THEN CallNext(req)
            ELSE Respond(req, 401)
  /\ UNCHANGED << fs, store, pc, locals, ended, history, counters, result, fault, srv, cases,
                  conf, sessions, buckets, now, created, granted, passed >>

\* limitPrivate()
LimitPrivate ==
  /\ req.stage = "limitPrivate"
  /\ Limit(<< "private", req.hdr.sub >>, privateLimit(conf))
  /\ UNCHANGED << fs, store, pc, locals, ended, history, counters, result, fault, srv, cases,
                  conf, sessions, now, created, granted >>

\* the handler of POST /api/public/chat or /api/private/chat answers
ChatHandler ==
  /\ req.stage = "handler"
  /\ req' = Respond(req, 200)
  /\ UNCHANGED << fs, store, pc, locals, ended, history, counters, result, fault, srv, cases,
                  conf, sessions, buckets, now, created, granted, passed >>

\* createSession({maxRequests, ttl}): the key is a uuid no session had before
CreateSession(maxRequests, ttl) ==
  /\ Idle
  /\ Len(created) < MaxSessions
  /\ LET key == Len(created) + 1
         s   == NewSession(maxRequests, ttl, now)
     IN  /\ sessions' = MapSet(sessions, key, s)
         /\ created' = Append(created, s)
  /\ UNCHANGED << fs, store, pc, locals, ended, history, counters, result, fault, srv, cases,
                  conf, buckets, now, req, granted, passed >>

\* the interval of core/session.ts deletes the expired sessions
SessionCleanup ==
  /\ Idle
  /\ \E k \in DOMAIN sessions : now > sessions[k].expiresAt
  /\ sessions' = [k \in {x \in DOMAIN sessions : ~(now > sessions[x].expiresAt)} |-> sessions[k]]
  /\ UNCHANGED << fs, store, pc, locals, ended, history, counters, result, fault, srv, cases,
                  conf, buckets, now, req, created, granted, passed >>

\* time passes between two requests
Tick ==
  /\ Idle
  /\ now + TickMs <= MaxTicks * TickMs
  /\ now' = now + TickMs
  /\ UNCHANGED << fs, store, pc, locals, ended, history, counters, result, fault, srv, cases,
                  conf, sessions, buckets, req, created, granted, passed >>

\* no session, no bucket, no request yet
InitRoutes ==
  /\ fs = [n \in 1..Len(Files) |-> NoFile]
  /\ InitStore
  /\ srv = NoServer
  /\ idcase = NoCase
  /\ chunkcase = NoCase
  /\ llmcase = NoCase
  /\ sessions = EmptyMap
  /\ buckets = EmptyMap
  /\ now = 0
  /\ req = NoRequest
  /\ created = << >>
  /\ granted = << >>
  /\ passed = << >>

\* a server of any of the configurations
InitWeb == InitRoutes /\ conf \in Confs

\* one of the first requests to /api/public/chat, with any headers
Probe(hdr, xff, page) == req.n < MaxProbes /\ Request("public", hdr, xff, page)

\* the public route of any deployment, for its first requests
NextWeb ==
  \/ \E hdr \in ApiKeys : \E xff \in Forwarded : \E page \in Pages : Probe(hdr, xff, page)
  \/ ValidateSessionKey
  \/ RequirePublicKey
  \/ RequireReferrer
  \/ LimitPublic
  \/ ChatHandler
  \/ \E m \in SessionQuotas : \E ttl \in SessionTtls : CreateSession(m, ttl)
  \/ SessionCleanup
  \/ Tick

SpecWeb == InitWeb /\ [][NextWeb]_vars

\* a server whose static key is set in the environment
InitTraffic ==
  InitRoutes /\ conf \in {c \in Confs : c.env.CHATBOT_API_KEY = StaticKey
                                        /\ c.config.auth.secret = Secret1}

\* both routes under the traffic of clients that hold a key: the static key,
\* a demo key or a session key on the bot's own page, a bearer token
NextTraffic ==
  \/ \E hdr \in {TextKey(StaticKey), SessionKey(1)} \cup {TextKey(d) : d \in DEMO_KEYS} :
        \E xff \in Forwarded : Request("public", hdr, xff, OwnPage)
  \/ \E hdr \in Bearers : Request("private", hdr, EmptyStr, OwnPage)
  \/ ValidateSessionKey
  \/ RequirePublicKey
  \/ RequireReferrer
  \/ LimitPublic
  \/ RequirePrivateJWT
  \/ LimitPrivate
  \/ ChatHandler
  \/ \E m \in SessionQuotas : \E ttl \in SessionTtls : CreateSession(m, ttl)
  \/ SessionCleanup
  \/ Tick

SpecTraffic == InitTraffic /\ [][NextTraffic]_vars

----------------------------------------------------------------------------
(* The guards on model output: detectLeakage and scrubOutput (guardrails),
   completeOnce and completeStream (src/src/core/llm.ts).  The regular
   expressions look at single characters, so in this section a string is the
   sequence of its characters. *)

UpperCase ==
  << "A", "B", "C", "D", "E", "F", "G", "H", "I", "J", "K", "L", "M", "N", "O", "P", "Q",
     "R", "S", "T", "U", "V", "W", "X", "Y", "Z" >>
LowerCase ==
  << "a", "b", "c", "d", "e", "f", "g", "h", "i", "j", "k", "l", "m", "n", "o", "p", "q",
     "r", "s", "t", "u", "v", "w", "x", "y", "z" >>
Digits == {"0", "1", "2", "3", "4", "5", "6", "7", "8", "9"}

\* [A-Za-z0-9] and [0-9A-Za-z_-]
AlphaNum  == Range(UpperCase) \cup Range(LowerCase) \cup Digits
KeyChars  == AlphaNum \cup {"_", "-"}

\* c repeated n times
Times(c, n)  == [j \in 1..n |-> c]

\* s.toLowerCase(), which is how a regular expression with flag i reads s
ToLower(c) ==
  IF \E n \in 1..Len(UpperCase) : UpperCase[n] = c
  THEN LowerCase[CHOOSE n \in 1..Len(UpperCase) : UpperCase[n] = c]
  ELSE c
toLowerCase(s) == [j \in 1..Len(s) |-> ToLower(s[j])]

\* t occurs in s at position p
OccursAt(s, t, p) == p + Len(t) - 1 <= Len(s) /\ \A j \in 1..Len(t) : s[p + j - 1] = t[j]

\* s.includes(t)
Includes(s, t) == \E p \in 1..(Len(s) + 1) : OccursAt(s, t, p)

\* the number of characters of class from position p of s on
RECURSIVE RunOf(_, _, _)
RunOf(s, p, class) ==
  IF p > Len(s) \/ s[p] \notin class THEN 0 ELSE 1 + RunOf(s, p + 1, class)

\* the length of the match of /prefix[class]{min,}/ at position p of s, 0 if
\* there is none: the quantifier is greedy
MatchAt(s, p, prefix, class, min) ==
  IF OccursAt(s, prefix, p) /\ RunOf(s, p + Len(prefix), class) >= min
  THEN Len(prefix) + RunOf(s, p + Len(prefix), class)
  ELSE 0

\* s.replace(/prefix[class]{min,}/g, by), from position p on
RECURSIVE ReplaceFrom(_, _, _, _, _, _)
ReplaceFrom(s, p, prefix, class, min, by) ==
  IF p > Len(s) THEN << >>
  ELSE LET m == MatchAt(s, p, prefix, class, min)
       IN  IF m > 0 THEN by \o ReplaceFrom(s, p + m, prefix, class, min, by)
           ELSE << s[p] >> \o ReplaceFrom(s, p + 1, prefix, class, min, by)

\* the secret patterns: /sk-[A-Za-z0-9]{15,}/ and /AIza[0-9A-Za-z_-]{30,}/
SkPrefix   == << "s", "k", "-" >>
SkMin      == 15
AIzaPrefix == << "A", "I", "z", "a" >>
AIzaMin    == 30
REDACTED   == << "[", "R", "E", "D", "A", "C", "T", "E", "D", "]" >>

\* scrubOutput that leaves the text as it is
scrubOutput_Nothing(text) == text

scrubOutput(text) ==
  ReplaceFrom(ReplaceFrom(text, 1, SkPrefix, AlphaNum, SkMin, REDACTED),
              1, AIzaPrefix, KeyChars, AIzaMin, REDACTED)

\* the texts detectLeakage's expressions match, in lower case
Flags ==
  {<< "s", "y", "s", "t", "e", "m", " ", "p", "r", "o", "m", "p", "t" >>,
   << "h", "i", "d", "d", "e", "n", " ", "i", "n", "s", "t", "r", "u", "c", "t", "i", "o", "n" >>,
   << "h", "e", "r", "e", " ", "a", "r", "e", " ", "m", "y", " ", "r", "u", "l", "e", "s" >>,
   << "h", "e", "r", "e", " ", "a", "r", "e", " ", "t", "h", "e", " ", "r", "u", "l", "e", "s" >>,
   << "h", "e", "r", "e", " ", "i", "s", " ", "m", "y", " ", "r", "u", "l", "e", "s" >>,
   << "h", "e", "r", "e", " ", "i", "s", " ", "t", "h", "e", " ", "r", "u", "l", "e", "s" >>,
   << "b", "e", "g", "i", "n", " ", "s", "y", "s", "t", "e", "m", " ", "p", "r", "o", "m", "p", "t" >>,
   << "t", "o", "o", "l", " ", "i", "n", "s", "t", "r", "u", "c", "t", "i", "o", "n", "s" >>}

detectLeakage(text) == \E f \in Flags : Includes(toLowerCase(text), f)

\* the reply completeOnce gives in place of a leak
Refusal ==
  << "S", "o", "r", "r", "y", ",", " ", "I", " ", "c", "a", "n", "'", "t", " ", "s", "h",
     "a", "r", "e", " ", "i", "n", "t", "e", "r", "n", "a", "l", " ", "i", "n", "s", "t",
     "r", "u", "c", "t", "i", "o", "n", "s", ".", " ", "H", "o", "w", " ", "e", "l", "s",
     "e", " ", "c", "a", "n", " ", "I", " ", "h", "e", "l", "p", "?" >>

\* completeOnce(): the content returned for the text the model produced
completeOnce(text) == scrubOutput(IF detectLeakage(text) THEN Refusal ELSE text)

\* the texts the model produces: harmless, holding a key of either pattern,
\* holding sk- and fewer characters than a key has, telling of its
\* instructions, both telling and holding a key
LLMTexts ==
  {<< "O", "p", "e", "n", " ", "9", "-", "5", "." >>,
   << "k", "e", "y", " " >> \o SkPrefix \o Times("A", SkMin) \o << "." >>,
   SkPrefix \o Times("A", SkMin - 1) \o << "-" >> \o AIzaPrefix \o Times("_", AIzaMin),
   SkPrefix \o Times("b", SkMin - 1),
   << "M", "y", " ", "S", "y", "s", "t", "e", "m", " ", "P", "r", "o", "m", "p", "t", ":", " ", "b", "e", " ", "k", "i", "n", "d" >>,
   << "t", "o", "o", "l", " ", "i", "n", "s", "t", "r", "u", "c", "t", "i", "o", "n", "s", ":", " ", "u", "s", "e", " " >> \o SkPrefix \o Times("7", SkMin + 1)}

\* the ways the provider cuts a text into the deltas of a stream: not at all,
\* or in two at any place
CutsOf(text) == 0..(Len(text) - 1)
Deltas(text, cut) ==
  IF cut = 0 THEN << text >> ELSE << SubSeq(text, 1, cut), SubSeq(text, cut + 1, Len(text)) >>

\* the model has produced a text, which a stream would bring in these deltas
InitLLM ==
  /\ fs = [n \in 1..Len(Files) |-> NoFile]
  /\ InitStore
  /\ srv = NoServer
  /\ idcase = NoCase
  /\ chunkcase = NoCase
  /\ WebOff
  /\ llmcase \in UNION {{[stage |-> "output", text |-> t, deltas |-> Deltas(t, c)] :
                             c \in CutsOf(t)} : t \in LLMTexts}

\* completeOnce() returns, and the route sends {reply: out.content}
CompleteOnce ==
  /\ llmcase.stage = "output"
  /\ llmcase' = [stage |-> "replied", mode |-> "once", text |-> llmcase.text,
                 delivered |-> completeOnce(llmcase.text)]
  /\ UNCHANGED << fs, store, pc, locals, ended, history, counters, result, fault, srv,
                  idcase, chunkcase, web >>

\* completeStream() is called: nothing is sent yet
StreamStart ==
  /\ llmcase.stage = "output"
  /\ llmcase' = [stage |-> "streaming", mode |-> "stream", text |-> llmcase.text,
                 deltas |-> llmcase.deltas, delivered |-> << >>]
  /\ UNCHANGED << fs, store, pc, locals, ended, history, counters, result, fault, srv,
                  idcase, chunkcase, web >>

\* one turn of completeStream's loop: the next delta, if not empty, is
\* scrubbed, yielded and written to the client
StreamDelta ==
  /\ llmcase.stage = "streaming"
  /\ llmcase.deltas # << >>
  /\ LET delta == Head(llmcase.deltas)
     IN  llmcase' = [llmcase EXCEPT
                       !.deltas = Tail(@),
                       !.delivered = IF delta # << >> THEN @ \o scrubOutput(delta) ELSE @]
  /\ UNCHANGED << fs, store, pc, locals, ended, history, counters, result, fault, srv,
                  idcase, chunkcase, web >>

\* the stream ends: "event: end" is written
StreamEnd ==
  /\ llmcase.stage = "streaming"
  /\ llmcase.deltas = << >>
  /\ llmcase' = [stage |-> "replied", mode |-> "stream", text |-> llmcase.text,
                 delivered |-> llmcase.delivered]
  /\ UNCHANGED << fs, store, pc, locals, ended, history, counters, result, fault, srv,
                  idcase, chunkcase, web >>

NextLLM ==
  \/ CompleteOnce
  \/ StreamStart
  \/ StreamDelta
  \/ StreamEnd

SpecLLM == InitLLM /\ [][NextLLM]_vars

----------------------------------------------------------------------------
(* build() over a document of more chunks than one SELECT of the diff loop
   takes, one of whose chunks repeats an earlier one *)

\* line c of the documents: 600 characters, so that no two lines fit one chunk
LongLine(c) == << << "a", c >>, << "b", 600 - c >> >>

\* a document of n lines, different from each other but for the last, which
\* is line j again
DocRepeat(n, j) ==
  [k \in 1..(3 * n - 1) |->
     LET l == (k + 2) \div 3
         c == IF l = n THEN j ELSE l
     IN  IF k % 3 = 0 THEN << "\n", 1 >> ELSE LongLine(c)[k % 3]]

\* the documents: the repeated chunks lie in one batch of the diff loop, next
\* to each other on two sides of its end, or far apart in two batches
RepeatDocs ==
  {DocRepeat(n, j) : n \in {BATCH_SIZE, BATCH_SIZE + 1, BATCH_SIZE + 2}, j \in {1, BATCH_SIZE - 1}}

\* the corpus is one such document
InitDup ==
  /\ fs \in {[n \in 1..Len(Files) |-> IF n = 2 THEN d ELSE NoFile] : d \in RepeatDocs}
  /\ InitStore
  /\ srv = NoServer
  /\ idcase = NoCase
  /\ chunkcase = NoCase
  /\ llmcase = NoCase
  /\ WebOff

\* the builds; the document may be removed between them
NextDup ==
  \/ \E n \in 1..Len(Files) : RemoveFile(n)
  \/ BuildStart
  \/ Scan
  \/ CleanupSelect
  \/ CleanupDelete
  \/ UpsertChunks
  \/ DiffBatch
  \/ DiffDoneEmpty
  \/ DiffDoneMissing
  \/ EmbedCall
  \/ EmbedCallFails
  \/ EmbedPersist

SpecDup == InitDup /\ [][NextDup]_vars

----------------------------------------------------------------------------
(* Properties *)

\* the ids the scan of corpus f computes
ScanIds(f) == Range(IdsOf(ScanRows(f)))

\* the document loadKnowledge returns for Files[n] in corpus f
FileDoc(f, n) ==
  LoadedDoc(join(join(KnowledgeDir, Files[n].bucket), Files[n].name), f[n], Files[n].bucket)

\* the ids the embedding calls ca[from..to] carried
CallIds(ca, from, to) == UNION {Range(ca[n].ids) : n \in from..to}

\* the ids this build has sent to the provider
Sent == CallIds(calls, 1, Len(calls))

\* the smallest number of batches of n that hold m
CeilDiv(m, n) == (m + n - 1) \div n

\* the last build returned, and so did the build before it
TwoBuildsOk == pc = "idle" /\ outcome = "ok" /\ prev.outcome = "ok"

\* C1 (idempotence of build): when build() has returned, the corpus is left
\* as it was and build() has returned a second time, the second build made no
\* embedding call and both relations hold the rows they held before it.
C1_Idempotent ==
  (TwoBuildsOk /\ scanFs = prev.scanFs) =>
     /\ calls = << >>
     /\ chunks = start.chunks
     /\ embeddings = start.embeddings

C1_Witness ==
  /\ TwoBuildsOk
  /\ scanFs = prev.scanFs
  /\ Len(chunks) > BATCH
  /\ DOMAIN embeddings = TableIds(chunks)

\* C2 (bucket isolation of query): every text a query returns is the text of
\* a row of chunks whose bucket is one of the allowed buckets, and a query
\* for base and public returns no row of bucket private.
C2_BucketIsolation ==
  result.called =>
     /\ Len(result.texts) = Len(result.rows)
     /\ \A n \in 1..Len(result.rows) :
          /\ \E m \in 1..Len(chunks) :
               /\ chunks[m].id = result.rows[n].id
               /\ chunks[m].text = result.texts[n]
               /\ chunks[m].bucket \in Range(result.allowed)
          /\ result.allowed = << BASE, PUBLIC >> =>
               ~ \E m \in 1..Len(chunks) :
                    chunks[m].id = result.rows[n].id /\ chunks[m].bucket = PRIVATE

C2_Witness ==
  /\ result.called
  /\ result.allowed = << BASE, PUBLIC >>
  /\ Len(result.texts) = 2
  /\ \E m \in 1..Len(chunks) : chunks[m].bucket = PRIVATE /\ chunks[m].id \in DOMAIN embeddings

\* the ids of the chunks of the documents of corpus old that corpus new no
\* longer holds
RemovedIds(old, new) ==
  UNION {Range(IdsOf(DocRows(FileDoc(old, n)))) :
           n \in {m \in 1..Len(Files) : old[m] # NoFile /\ new[m] = NoFile}}

\* C3 (deletion): when a document ingested by a build that returned is
\* removed and the next build returns, no row of chunks and no row of
\* embeddings has the id of any chunk of that document.
C3_Deletion ==
  TwoBuildsOk =>
     \A id \in RemovedIds(prev.scanFs, scanFs) :
        id \notin TableIds(chunks) /\ id \notin DOMAIN embeddings

\* C4 (no orphan embeddings): in every state, every id of embeddings is the
\* id of a row of chunks.
C4_NoOrphanEmbeddings == DOMAIN embeddings \subseteq TableIds(chunks)

\* C5 (no stale chunks): when build() has returned, the ids of chunks are
\* exactly the ids its scan computed.
C5_NoStaleChunks ==
  (pc = "idle" /\ outcome = "ok") => TableIds(chunks) = ScanIds(scanFs)

C5_Witness ==
  /\ pc = "idle"
  /\ outcome = "ok"
  /\ chunks # << >>
  /\ \E id \in TableIds(start.chunks) : id \notin TableIds(chunks)

\* the build before this one threw in an embedding call, and this build
\* scanned the corpus that one scanned
ResumesFailedBuild ==
  /\ prev.outcome = "failed"
  /\ prev.failedAt = "embed"
  /\ pc \notin {"scan"}
  /\ scanFs = prev.scanFs

\* C6 (resumable build): a build over the corpus of a build that failed
\* while embedding sends only ids that had no embedding row when it started,
\* none of them an id of a batch the failed build committed, and when it
\* returns it has sent every id of the scan that had no embedding row.
C6_Resume ==
  ResumesFailedBuild =>
     /\ Sent \subseteq ScanIds(scanFs) \ DOMAIN start.embeddings
     /\ Sent \cap CallIds(prev.calls, 1, Len(prev.calls) - 1) = {}
     /\ (pc = "idle" /\ outcome = "ok") => Sent = ScanIds(scanFs) \ DOMAIN start.embeddings

C6_Witness ==
  /\ ResumesFailedBuild
  /\ pc = "idle"
  /\ outcome = "ok"
  /\ Len(prev.calls) = 2
  /\ Sent # {}

\* C7 (failing embedding batch): an embedding call that fails is the last
\* call of its build and build() has thrown; embeddings then holds the rows
\* it held when the build started and those of the batches sent before, and
\* no row for an id of the failing batch or of a later one.
C7_FailingBatch ==
  \A n \in 1..Len(calls) :
     calls[n].failed =>
        /\ n = Len(calls)
        /\ pc = "idle"
        /\ outcome = "failed"
        /\ DOMAIN embeddings = DOMAIN start.embeddings \cup CallIds(calls, 1, n - 1)
        /\ Range(calls[n].ids) \cap DOMAIN embeddings = {}
        /\ ((ScanIds(scanFs) \ DOMAIN start.embeddings) \ CallIds(calls, 1, n - 1))
              \cap DOMAIN embeddings = {}

C7_Witness ==
  /\ Len(calls) = 2
  /\ calls[2].failed
  /\ calls[1].ids # << >>
  /\ Range(calls[1].ids) \subseteq DOMAIN embeddings

\* C8 (one embedding call per batch): a build whose missing list has m ids
\* makes, when it returns, exactly ceil(m / 96) embedding calls and never more;
\* each call carries the next 96 ids of the list at most, and at least one.
C8_OneCallPerBatch ==
  /\ Len(calls) <= CeilDiv(nmiss, 96)
  /\ (pc = "idle" /\ outcome = "ok") => Len(calls) = CeilDiv(nmiss, 96)
  /\ \A n \in 1..Len(calls) : Len(calls[n].ids) \in 1..96
  /\ pc \in {"embed", "persist"} =>
       \A n \in 1..Len(calls) :
          calls[n].ids = SubSeq(missing, 96 * (n - 1) + 1, Min(96 * n, Len(missing)))

C8_Witness ==
  /\ pc = "idle"
  /\ outcome = "ok"
  /\ nmiss > 96
  /\ Len(calls) = 2

\* the files whose document was edited inside one chunk between the corpora
\* old and new: as many chunks as before, one of them with another text
EditedInOneChunk(old, new) ==
  {n \in 1..Len(Files) :
     /\ old[n] # NoFile
     /\ new[n] # NoFile
     /\ LET was == chunk(old[n], DefaultMax)
            is  == chunk(new[n], DefaultMax)
        IN  /\ Len(was) = Len(is)
            /\ Cardinality({j \in 1..Len(is) : was[j] # is[j]}) = 1}

C10_IdInjective ==
  idcase.stage = "ids" =>
     (idcase.ida = idcase.idb <=>
        /\ idcase.a.bucket = idcase.b.bucket
        /\ idcase.a.source = idcase.b.source
        /\ DocRows(idcase.a)[1].text = DocRows(idcase.b)[1].text)

\* the lines chunk() iterates over: those of the text without its carriage
\* returns
LinesOf(text) == Split(RemoveChar(text, "\r"), "\n")

\* the chunks out are made of whole lines: cut points 0 <= c[1] <= ... <= c[m]
\* <= n exist such that chunk j is the trimmed join of the lines after cut
\* j-1 up to cut j, and the lines after the last cut are blank
WholeLines(lines, out) ==
  \E c \in [1..Len(out) -> 0..Len(lines)] :
     /\ \A j \in 1..(Len(out) - 1) : c[j] <= c[j + 1]
     /\ \A j \in 1..Len(out) :
          out[j] = Trim(JoinLines(SubSeq(lines, (IF j = 1 THEN 0 ELSE c[j - 1]) + 1, c[j])))
     /\ Trim(JoinLines(SubSeq(lines, (IF Len(out) = 0 THEN 0 ELSE c[Len(out)]) + 1,
                               Len(lines)))) = EmptyStr

\* a text with a carriage return that is not at one of its ends
InnerCR(text) == \E n \in 2..(Len(text) - 1) : text[n][1] = "\r"

\* C11 (chunk boundary), amended: the chunks are made of whole lines, none
\* of them divided between two chunks, and a document that is not blank and
\* shorter than max yields one chunk: its text without the carriage returns,
\* trimmed.
C11_ChunkBoundary ==
  chunkcase.stage = "chunks" =>
     /\ WholeLines(LinesOf(chunkcase.text), chunkcase.out)
     /\ (StrLen(chunkcase.text) < chunkcase.max /\ Trim(chunkcase.text) # EmptyStr) =>
          chunkcase.out = << Trim(RemoveChar(chunkcase.text, "\r")) >>

\* a short document with a carriage return inside it has been chunked, and
\* so has a document of several chunks
C11_Witness ==
  /\ chunkcase.stage = "chunks"
  /\ StrLen(chunkcase.text) < chunkcase.max
  /\ InnerCR(chunkcase.text)
  /\ Len(chunkcase.out) = 1

\* C11 (chunk boundary) as stated: a document that is not blank and shorter
\* than max yields one chunk, equal to its trimmed full text.
C11_AsStated ==
  chunkcase.stage = "chunks" =>
     /\ WholeLines(LinesOf(chunkcase.text), chunkcase.out)
     /\ (StrLen(chunkcase.text) < chunkcase.max /\ Trim(chunkcase.text) # EmptyStr) =>
          chunkcase.out = << Trim(chunkcase.text) >>

\* C12 (chunk size bound): every chunk has at most max characters, or is one
\* line of the text that is itself longer than max, trimmed, with no other
\* line in the chunk.
C12_ChunkSizeBound ==
  chunkcase.stage = "chunks" =>
     \A j \in 1..Len(chunkcase.out) :
        \/ StrLen(chunkcase.out[j]) <= chunkcase.max
        \/ \E n \in 1..Len(LinesOf(chunkcase.text)) :
              /\ StrLen(LinesOf(chunkcase.text)[n]) > chunkcase.max
              /\ chunkcase.out[j] = Trim(LinesOf(chunkcase.text)[n])

\* a text with a line longer than max between two other lines has been
\* chunked: the long line is a chunk and so are its neighbours
C12_Witness ==
  /\ chunkcase.stage = "chunks"
  /\ Len(chunkcase.out) = 3
  /\ StrLen(chunkcase.out[2]) > chunkcase.max
  /\ StrLen(chunkcase.out[1]) > 0
  /\ StrLen(chunkcase.out[3]) > 0

\* C13 (atomic upsert): when a statement of the upsert transaction or its
\* commit fails, build() has thrown at the upsert and relation chunks holds
\* the rows it held when the transaction began, none of those the
\* transaction inserted.
C13_AtomicUpsert ==
  fault.kind = "upsert" =>
     /\ pc = "idle"
     /\ outcome = "failed"
     /\ failedAt = "upsert"
     /\ chunks = fault.before

\* the upsert failed after it had inserted rows, over a relation that held
\* rows
C13_Witness ==
  /\ fault.kind = "upsert"
  /\ fault.pending > 0
  /\ fault.before # << >>
  /\ outcome = "failed"

\* C14 (atomic embedding batch): when build() has returned or thrown, every
\* batch it sent has all of its ids in embeddings or none of those it found
\* missing; a failing insert or commit of a batch has made build() throw and
\* left no row of that batch, the rows of the batches before it staying.
C14_AtomicBatch ==
  /\ pc = "idle" =>
       \A n \in 1..Len(calls) :
          \/ Range(calls[n].ids) \subseteq DOMAIN embeddings
          \/ Range(calls[n].ids) \cap DOMAIN embeddings \subseteq DOMAIN start.embeddings
  /\ fault.kind \in {"insert", "commit"} =>
       /\ pc = "idle"
       /\ outcome = "failed"
       /\ Range(fault.batch) \cap DOMAIN embeddings \subseteq fault.before
       /\ fault.before \subseteq DOMAIN embeddings

\* C15 (startup ordering): the chat routes are mounted and the app is
\* returned only when build() has returned, so every query of a chat request
\* runs while no build is running and after a build that returned; when
\* build() has thrown, no route is mounted and no app is returned.
C15_StartupOrdering ==
  /\ (srv.routes # {} \/ srv.stage \in {"mounted", "ready"}) => (pc = "idle" /\ outcome = "ok")
  /\ result.called => (result.pc = "idle" /\ result.outcome = "ok")
  /\ outcome = "failed" => (srv.stage \in {"none", "build", "rejected"} /\ srv.routes = {})
  /\ srv.stage = "rejected" => (outcome = "failed" /\ ~ result.called)

\* a chat request has been answered from the store the server built
C15_Witness ==
  /\ srv.stage = "ready"
  /\ result.called
  /\ Len(result.texts) > 1
  /\ nmiss > BATCH

\* C16 (I/O errors are fatal): when listing an existing bucket directory,
\* stat-ing an entry of it or reading a document fails during the scan,
\* build() has thrown at the scan and both relations hold what they held
\* when it started.
C16_IOErrorsFatal ==
  fault.kind \in {"readdir", "stat", "read"} =>
     /\ pc = "idle"
     /\ outcome = "failed"
     /\ failedAt = "scan"
     /\ chunks = start.chunks
     /\ embeddings = start.embeddings

\* the files corpus f holds
Present(f) == {n \in 1..Len(Files) : f[n] # NoFile}

\* the buckets whose directory holds no file in corpus f
MissingBuckets(f) ==
  {b \in 1..Len(Buckets) : \A n \in Present(f) : Files[n].bucket # Buckets[b]}

\* C17 (a missing bucket is an empty bucket): a scan over a corpus with
\* missing buckets does not throw; loadKnowledge returns one document for
\* every file of the other buckets and no other, each with its path, its
\* text and its own bucket, and the rows of the scan carry those buckets.
C17_MissingBucket ==
  /\ outcome = "failed" => failedAt # "scan"
  /\ pc = "cleanup" =>
       LET docs == loadKnowledge(scanFs)
       IN  /\ Len(docs) = Cardinality(Present(scanFs))
           /\ \A n \in Present(scanFs) : \E d \in 1..Len(docs) : docs[d] = FileDoc(scanFs, n)
           /\ \A d \in 1..Len(docs) :
                 docs[d].bucket \notin {Buckets[b] : b \in MissingBuckets(scanFs)}
           /\ {<< rows[n].source, rows[n].bucket >> : n \in 1..Len(rows)}
                 = {<< FileDoc(scanFs, n).source, Files[n].bucket >> : n \in Present(scanFs)}

\* a corpus without the first bucket and with the two others has been
\* scanned
C17_Witness ==
  /\ pc = "cleanup"
  /\ MissingBuckets(scanFs) = {1}
  /\ Len(rows) > 1

\* the rows of chunks of an allowed bucket that have an embedding row: what
\* a query has to choose from
Eligible(allowed) ==
  {n \in 1..Len(chunks) :
     chunks[n].bucket \in Range(allowed) /\ chunks[n].id \in DOMAIN embeddings}

\* the vector stored for the id
VectorOf(id) == JSONparse(embeddings[id].embedding)

\* C18 (top-k ranking): a query returns min(k, n) texts, n being the number
\* of embedded chunks of the allowed buckets; no returned text scores higher
\* than the one before it, and no chunk left out scores higher than a
\* returned one.
C18_TopK ==
  result.called =>
     LET qv  == Embedding(result.q)
         got == {result.rows[j].id : j \in 1..Len(result.rows)}
     IN  /\ Len(result.texts) = Min(result.k, Cardinality(Eligible(result.allowed)))
         /\ Len(result.rows) = Len(result.texts)
         /\ Cardinality(got) = Len(result.rows)
         /\ \A j \in 1..(Len(result.rows) - 1) :
               ~ CosineGreater(qv, VectorOf(result.rows[j + 1].id), VectorOf(result.rows[j].id))
         /\ \A n \in Eligible(result.allowed) :
               chunks[n].id \notin got =>
                  \A j \in 1..Len(result.rows) :
                     ~ CosineGreater(qv, VectorOf(chunks[n].id), VectorOf(result.rows[j].id))

\* a query for two texts has left out a chunk that scores lower than both
\* and was selected before them
C18_Witness ==
  /\ result.called
  /\ result.k = 2
  /\ Len(result.texts) = 2
  /\ \E n \in Eligible(result.allowed) :
        /\ chunks[n].id # result.rows[1].id
        /\ chunks[n].id # result.rows[2].id
        /\ CosineGreater(Embedding(result.q), VectorOf(result.rows[2].id), VectorOf(chunks[n].id))
        /\ \E m \in (n + 1)..Len(chunks) : chunks[m].id = result.rows[1].id

\* C19 (unembedded chunks are never served): every text a query returns is
\* the text of a row of chunks whose id has a row in embeddings, also in the
\* store a build left when it failed while embedding.
C19_OnlyEmbedded ==
  result.called =>
     \A j \in 1..Len(result.texts) :
        \E n \in 1..Len(chunks) :
           /\ chunks[n].text = result.texts[j]
           /\ chunks[n].id = result.rows[j].id
           /\ chunks[n].id \in DOMAIN embeddings

\* a query has returned texts from the store of a build that failed while
\* embedding and left chunks of the allowed buckets without an embedding
C19_Witness ==
  /\ result.called
  /\ outcome = "failed"
  /\ failedAt = "embed"
  /\ Len(result.texts) = 2
  /\ \E n \in 1..Len(chunks) :
        chunks[n].bucket \in Range(result.allowed) /\ chunks[n].id \notin DOMAIN embeddings

\* C20 (a query failure is not zero matches): a query whose embedding call
\* or store read fails returns no list; a query whose calls succeed returns
\* one, the empty list when no embedded chunk lies in the allowed buckets.
C20_FailureNotEmpty ==
  result.called =>
     /\ result.error # "none" => ~ result.returned
     /\ result.error = "none" =>
          /\ result.returned
          /\ Eligible(result.allowed) = {} => result.texts = << >>

\* the store read of a query has failed over a store that holds embedded
\* chunks of the allowed buckets
C20_Witness ==
  /\ result.called
  /\ result.error = "read"
  /\ ~ result.returned
  /\ Eligible(result.allowed) # {}

\* the buckets of the rows of chunks that a response's rows come from
ServedBuckets ==
  {chunks[n].bucket : n \in {m \in 1..Len(chunks) :
                               \E j \in 1..Len(result.rows) : result.rows[j].id = chunks[m].id}}

\* C21 (route visibility domains): a retrieval for the public or the demo
\* chat passes base and public, one for the private chat base and private;
\* the rows it returns come from those buckets only, so a public or demo
\* context holds no private row and a private context no public row.
C21_RouteVisibility ==
  (result.called /\ srv.stage = "ready") =>
     /\ result.route \in {"public", "demo"} =>
          (result.allowed = << BASE, PUBLIC >> /\ PRIVATE \notin ServedBuckets)
     /\ result.route = "private" =>
          (result.allowed = << BASE, PRIVATE >> /\ PUBLIC \notin ServedBuckets)
     /\ ServedBuckets \subseteq Range(result.allowed)

\* a private chat request has been given context from a store that holds
\* embedded public chunks
C21_Witness ==
  /\ result.called
  /\ srv.stage = "ready"
  /\ result.route = "private"
  /\ Len(result.texts) > 1
  /\ \E n \in 1..Len(chunks) : chunks[n].bucket = PUBLIC /\ chunks[n].id \in DOMAIN embeddings

\* the request at requirePublicKey carries an unexpired API key that
\* ApiKeyManager made under the configured auth.secret, and the environment
\* sets no CHATBOT_SECRET
DocumentedKey ==
  /\ req.stage = "requirePublicKey"
  /\ conf.config.auth.secret # EmptyStr
  /\ conf.env.CHATBOT_SECRET = EmptyStr
  /\ jwtVerify(req.hdr, conf.config.auth.secret, now)
  /\ req.hdr.type = "api_key"

\* C22 (configured secret authorizes API keys): with auth.secret = S and no
\* CHATBOT_SECRET in the environment, a request to /api/public/chat with an
\* unexpired key of ApiKeyManager(S).create() passes requirePublicKey, which
\* hands it to the next middleware on the way to the handler.
C22_SecretAuthorizes ==
  [][(DocumentedKey /\ RequirePublicKey) => req'.stage = "requireReferrer"]_vars

\* the origins requireReferrer of the public route allows
AllowedSet == {conf.config.bot.publicUrl} \cup Range(Tail(AllowedOrigins))

\* the request says it comes from a page of an allowed origin
FromAllowedOrigin(r) ==
  \/ r.origin # EmptyStr /\ r.origin \in AllowedSet
  \/ r.referer # EmptyStr /\ OriginOf(r.referer) \in AllowedSet

\* middleware a stands before middleware b in the sequence t
Before(t, a, b) ==
  \E m, n \in 1..Len(t) : m < n /\ t[m] = a /\ t[n] = b

\* the request has a session key that validateSession accepted for it, and
\* the middleware that lets session keys through ran after that
ValidatedFirst(r) ==
  /\ r.valid
  /\ r.hdr.k \in 1..Len(created)
  /\ r.at <= created[r.hdr.k].expiresAt
  /\ \E j \in 1..Len(granted) : granted[j] = [key |-> r.hdr.k, at |-> r.at]
  /\ Before(r.trace, "validateSessionKey", "requirePublicKey")

\* C25 (session keys are validated before they are trusted): a request to
\* /api/public/* with a session_ key stands at the chat handler only if
\* validateSession accepted the key for this request, earlier than
\* requirePublicKey let it through, and its origin or referer is an allowed
\* origin.
C25_SessionValidated ==
  (req.stage = "handler" /\ req.route = "public" /\ IsSessionKey(req.hdr)) =>
     (ValidatedFirst(req) /\ FromAllowedOrigin(req))

\* validation and its order alone, whatever page the request comes from
SessionValidatedFirst ==
  (req.stage = "handler" /\ req.route = "public" /\ IsSessionKey(req.hdr)) => ValidatedFirst(req)

\* the limit that applies to a key of the limiter
LimitOfKey(key) == IF key[1] = "pub" THEN publicLimit(conf) ELSE privateLimit(conf)

\* the requests of key the limiter let through in the 60 seconds from time t
PassedIn(key, t) ==
  {m \in 1..Len(passed) : passed[m].key = key /\ t <= passed[m].at /\ passed[m].at < t + WINDOW_MS}

\* C23 (requests-per-minute limit): for each client key the limiter lets
\* through at most `limit` requests in any interval of 60 seconds; a request
\* beyond them is answered 429.
C23_PerMinuteLimit ==
  \A j \in 1..Len(passed) :
     Cardinality(PassedIn(passed[j].key, passed[j].at)) <= LimitOfKey(passed[j].key)

\* the calls of validateSession(k) that returned true
GrantsOf(k) == {j \in 1..Len(granted) : granted[j].key = k}

\* C24 (session quota and expiry): for every session created with
\* maxRequests = m, validateSession returns true at most m times and never
\* later than expiresAt; the stored request count never exceeds m and is the
\* number of validations that succeeded, so a failed one leaves it alone.
C24_SessionQuota ==
  \A k \in 1..Len(created) :
     /\ Cardinality(GrantsOf(k)) <= created[k].maxRequests
     /\ \A j \in GrantsOf(k) : granted[j].at <= created[k].expiresAt
     /\ k \in DOMAIN sessions =>
          /\ sessions[k].requests <= sessions[k].maxRequests
          /\ sessions[k].requests = Cardinality(GrantsOf(k))
          /\ sessions[k].maxRequests = created[k].maxRequests
          /\ sessions[k].expiresAt = created[k].expiresAt

\* a session of quota 2 was granted twice, the second time at the very
\* millisecond it expires, and a third request with its key was answered 401
C24_Witness ==
  /\ req.stage = "done"
  /\ req.by = "validateSessionKey"
  /\ req.status = 401
  /\ 1 \in DOMAIN sessions
  /\ sessions[1].maxRequests = 2
  /\ sessions[1].requests = 2
  /\ \E j \in GrantsOf(1) : granted[j].at = sessions[1].expiresAt

\* s holds a substring that matches one of the secret patterns
ContainsSecret(s) ==
  \E p \in 1..Len(s) :
     \/ MatchAt(s, p, SkPrefix, AlphaNum, SkMin) > 0
     \/ MatchAt(s, p, AIzaPrefix, KeyChars, AIzaMin) > 0

\* what the client was sent holds no secret, and is the refusal if the text
\* of the model matches a leakage pattern
Guarded(c) ==
  /\ ~ ContainsSecret(c.delivered)
  /\ detectLeakage(c.text) => c.delivered = Refusal

\* C26 (output guarding covers every response mode): whatever the model
\* produces, the text delivered to the client, as one reply of completeOnce
\* or as the concatenation of the deltas of completeStream, holds no match of
\* a secret pattern and is the fixed refusal when the model's text matches a
\* leakage pattern.
C26_OutputGuarded == llmcase.stage = "replied" => Guarded(llmcase)

\* the same for the replies of completeOnce alone
OnceGuarded == (llmcase.stage = "replied" /\ llmcase.mode = "once") => Guarded(llmcase)

\* a stream delivered a secret, although every delta was scrubbed
StreamedSecret ==
  /\ llmcase.stage = "replied"
  /\ llmcase.mode = "stream"
  /\ ContainsSecret(llmcase.delivered)
  /\ ~ detectLeakage(llmcase.text)

\* the lines of text that are not blank, each trimmed, from top to bottom
NonBlankLines(text) ==
  LET lines       == Split(text, "\n")
      NonBlank(l) == Trim(l) # EmptyStr
      kept        == SelectSeq(lines, NonBlank)
  IN  [j \in 1..Len(kept) |-> Trim(kept[j])]

\* the non-blank lines of the chunks out, in output order
RECURSIVE ChunkedLines(_)
ChunkedLines(out) ==
  IF out = << >> THEN << >>
  ELSE ChunkedLines(SubSeq(out, 1, Len(out) - 1)) \o NonBlankLines(out[Len(out)])

\* C27 (chunking preserves content and order): the chunks of a document,
\* in output order, hold every non-blank line of the document exactly once
\* and in top-to-bottom order (a line taken without the white space and
\* carriage returns at its ends); none is dropped, duplicated or reordered.
C27_ContentAndOrder ==
  chunkcase.stage = "chunks" => ChunkedLines(chunkcase.out) = NonBlankLines(chunkcase.text)

\* a document of three different non-blank lines has been cut into two
\* chunks, one of them of two lines
C27_Witness ==
  /\ chunkcase.stage = "chunks"
  /\ Len(chunkcase.out) = 2
  /\ Len(NonBlankLines(chunkcase.text)) = 3
  /\ Cardinality(Range(NonBlankLines(chunkcase.text))) = 3
  /\ Len(NonBlankLines(chunkcase.out[1])) = 2

\* C28 (chunk() never emits an empty chunk): for every text and every max,
\* each chunk of the result holds at least one character that is not white
\* space.
C28_NoEmptyChunk ==
  chunkcase.stage = "chunks" =>
     \A j \in 1..Len(chunkcase.out) : Trim(chunkcase.out[j]) # EmptyStr

\* C29 (no id is embedded twice in one build): missing holds each id at most
\* once, also when the scan yields a chunk id more than once and the ids
\* span several batches of the diff loop.
C29_NoIdTwice ==
  \A m, n \in 1..Len(missing) : missing[m] = missing[n] => m = n

\* the ids of one call of the embedding provider are different from each other
CallIdsDistinct ==
  \A c \in 1..Len(calls) :
     \A m, n \in 1..Len(calls[c].ids) : calls[c].ids[m] = calls[c].ids[n] => m = n

====
